---- MODULE Spec2Model ----
(***************************************************************************)
(* Model of claude-fzf: the session metadata pipeline (file discovery,     *)
(* line-by-line parse, mtime-keyed cache persisted with gob) as driven by  *)
(* loadAllSessions, one process instance after another on one home         *)
(* directory.                                                              *)
(*                                                                         *)
(* Text values (Go strings) are sequences of one-character strings, and    *)
(* the empty Go string is the empty sequence.  A time.Time is a natural    *)
(* number, 0 being the zero time.                                          *)
(***************************************************************************)
EXTENDS Naturals, Integers, Sequences, FiniteSets, TLC

\* ------------------------------------------------------------------ bounds
\* File modification times range over 1..MaxTime.
MaxTime == 2
\* Number of changes and faults the environment causes in the home directory.
MaxEnvSteps == 1

\* ------------------------------------------------------------- text values
EmptyStr == << >>
\* the placeholder of finalizeSummary
NoSummary == <<"(", "n", "o", " ", "s", "u", "m", "m", "a", "r", "y", ")">>
Ellipsis == <<".", ".", ".">>
\* maxLen passed to truncate by finalizeSummary
SummaryMaxLen == 60
\* size of the bufio.Scanner buffer: a longer line ends the scan of the file
ScanBufMax == 1048576

\* ------------------------------------------------------------------- paths
\* A path is a directory and a file name; a file name is a sequence of
\* tokens, so that prefix and suffix tests are computed, not assumed.
JsonlExt == ".jsonl"
AgentPrefix == "agent-"

MkPath(d, n) == [dir |-> d, name |-> n]
ZeroPath == [dir |-> "", name |-> << >>]

PathA1 == MkPath("pA", <<"s1", JsonlExt>>)
PathB1 == MkPath("pB", <<"s1", JsonlExt>>)
PathB2 == MkPath("pB", <<"s2", JsonlExt>>)
PathAgent == MkPath("pA", <<AgentPrefix, "s3", JsonlExt>>)

\* Lexical order of filepath.WalkDir over the transcript root.
WalkOrder == <<PathAgent, PathA1, PathB1, PathB2>>
Paths == {WalkOrder[i] : i \in 1..Len(WalkOrder)}
\* The transcripts the environment creates, rewrites and removes.
Transcripts == {PathA1, PathB1, PathB2}

HasSuffix(name, suf) == Len(name) > 0 /\ name[Len(name)] = suf
HasPrefix(name, pre) == Len(name) > 0 /\ name[1] = pre
TrimSuffix(name, suf) ==
    IF HasSuffix(name, suf) THEN SubSeq(name, 1, Len(name) - 1) ELSE name
Base(path) == path.name

\* ------------------------------------------------------------------ parser
\* One line of a transcript.  json is "ok" when json.Unmarshal into jsonLine
\* succeeds, "syntax" for invalid JSON, "type" for valid JSON whose
\* message.content is not a string (Unmarshal returns an error as well).
\* size is the length of the line in bytes.
MkLine(j, t, cwd, summ, content, branch, size) ==
    [json |-> j, Type |-> t, Cwd |-> cwd, Summary |-> summ,
     Content |-> content, GitBranch |-> branch, size |-> size]

ZeroSession ==
    [ID |-> << >>, ProjectPath |-> EmptyStr, Summary |-> EmptyStr, ModTime |-> 0,
     FilePath |-> ZeroPath, GitBranch |-> EmptyStr, UserMsgCount |-> 0,
     AsstMsgCount |-> 0]

\* Parser state: the session being built and the local firstUserMsg.
processLine(st, line) ==
    LET s == st.sess
        s1 == CASE line.Type = "user" ->
                     [s EXCEPT !.UserMsgCount = @ + 1,
                               !.ProjectPath =
                                   IF @ = EmptyStr /\ line.Cwd # EmptyStr
                                   THEN line.Cwd ELSE @]
                [] line.Type = "assistant" -> [s EXCEPT !.AsstMsgCount = @ + 1]
                [] line.Type = "summary" ->
                     [s EXCEPT !.Summary =
                                   IF line.Summary # EmptyStr THEN line.Summary ELSE @]
                [] OTHER -> s
        f1 == IF line.Type = "user" /\ st.first = EmptyStr /\ line.Content # EmptyStr
              THEN line.Content ELSE st.first
        s2 == IF line.GitBranch # EmptyStr /\ s1.GitBranch = EmptyStr
              THEN [s1 EXCEPT !.GitBranch = line.GitBranch] ELSE s1
    IN [sess |-> s2, first |-> f1]

truncate(s, maxLen) ==
    IF Len(s) <= maxLen THEN s ELSE SubSeq(s, 1, maxLen - 3) \o Ellipsis

finalizeSummary(st) ==
    IF st.sess.Summary # EmptyStr THEN st.sess
    ELSE IF st.first # EmptyStr
         THEN [st.sess EXCEPT !.Summary = truncate(st.first, SummaryMaxLen)]
         ELSE [st.sess EXCEPT !.Summary = NoSummary]

\* The loop of ParseFile over the lines: scanner.Scan() ends the loop at the
\* first line that does not fit the buffer; a line that does not unmarshal
\* is skipped.
RECURSIVE ScanLines(_, _, _)
ScanLines(st, lines, i) ==
    IF i > Len(lines) THEN st
    ELSE IF lines[i].size >= ScanBufMax THEN st
    ELSE IF lines[i].json # "ok" THEN ScanLines(st, lines, i + 1)
    ELSE ScanLines(processLine(st, lines[i]), lines, i + 1)

\* Mutant of ParseLines: the ID is taken from the directory of the path.
ParseLines_DirID(path, mtime, lines) ==
    LET init == [ZeroSession EXCEPT !.ID = <<path.dir>>,
                                    !.FilePath = path,
                                    !.ModTime = mtime]
    IN finalizeSummary(ScanLines([sess |-> init, first |-> EmptyStr], lines, 1))

\* ParseFile on a file that opens and stats: the returned Session.
ParseLines(path, mtime, lines) ==
    LET init == [ZeroSession EXCEPT !.ID = TrimSuffix(Base(path), JsonlExt),
                                    !.FilePath = path,
                                    !.ModTime = mtime]
    IN finalizeSummary(ScanLines([sess |-> init, first |-> EmptyStr], lines, 1))

\* ParseFile: os.Open fails on a missing or unreadable file.
ParseFile(files, path) ==
    IF files[path].exists /\ files[path].readable
    THEN [err |-> FALSE,
          sess |-> ParseLines(path, files[path].mtime, files[path].content)]
    ELSE [err |-> TRUE, sess |-> ZeroSession]

\* ------------------------------------------------------- sample transcripts
StrHi == <<"h", "i">>
StrFix == <<"f", "i", "x">>
StrMain == <<"m", "a", "i", "n">>
StrProj == <<"/", "w">>

ContentUser ==
    << MkLine("ok", "user", StrProj, EmptyStr, StrHi, EmptyStr, 40),
       MkLine("syntax", "", EmptyStr, EmptyStr, EmptyStr, EmptyStr, 7),
       MkLine("ok", "assistant", EmptyStr, EmptyStr, EmptyStr, StrMain, 40) >>
ContentSummary ==
    << MkLine("ok", "summary", EmptyStr, StrFix, EmptyStr, EmptyStr, 30),
       MkLine("ok", "user", EmptyStr, EmptyStr, StrHi, EmptyStr, 40) >>
Contents == {ContentUser, ContentSummary}


\* ------------------------------------------------------- controller: values
Slash == "/"
Digits == {"0", "1", "2", "3", "4", "5", "6", "7", "8", "9"}

\* the fallback session name of ProjectToSessionName
StrClaude == <<"c", "l", "a", "u", "d", "e">>
StrDot == <<".">>
StrRoot == <<"/">>
StrWidgets == <<"w", "i", "d", "g", "e", "t", "s">>
PathWidgets == <<"/", "h", "o", "m", "e", "/", "u", "/">> \o StrWidgets
\* another project directory of the same final component
PathWidgetsV == <<"/", "h", "o", "m", "e", "/", "v", "/">> \o StrWidgets
\* the directory the tool is started in
StartDir == <<"~">>
\* names of sessions the operator works in before the tool runs
Str7 == <<"7">>
StrDev == <<"d", "e", "v">>

\* filepath.Base of the Go library, as ProjectToSessionName calls it.
RECURSIVE StripTrailing(_)
StripTrailing(s) ==
    IF Len(s) > 0 /\ s[Len(s)] = Slash
    THEN StripTrailing(SubSeq(s, 1, Len(s) - 1)) ELSE s
LastSlash(s) ==
    LET I == {i \in 1..Len(s) : s[i] = Slash}
    IN IF I = {} THEN 0 ELSE CHOOSE i \in I : \A j \in I : j <= i
filepathBase(path) ==
    IF path = EmptyStr THEN StrDot
    ELSE LET t == StripTrailing(path)
             u == SubSeq(t, LastSlash(t) + 1, Len(t))
         IN IF u = EmptyStr THEN StrRoot ELSE u

ProjectToSessionName(projectPath) ==
    LET name == filepathBase(projectPath)
    IN IF name = EmptyStr \/ name = StrDot THEN StrClaude ELSE name

\* A process in a pane: the command, whether it is wrapped so that a shell
\* follows it, and the invocation that started it (0: none of them).
MkProc(c, keep, by) == [cmd |-> c, keep |-> keep, by |-> by]
ShellProc == MkProc("shell", TRUE, 0)
OtherProc == MkProc("other", FALSE, 0)
MkWindow(n, d, p) == [name |-> n, dir |-> d, proc |-> p]
MkSession(n, d, ws, s) == [name |-> n, dir |-> d, wins |-> ws, sel |-> s]

ClaudeWindow == "claude"
\* the name the multiplexer gives the first window of a new session
ShellWindow == "zsh"

\* config.Window values and the configured lists cfg.Tmux.Windows
MkWinCfg(n, c) == [Name |-> n, Command |-> c]
CfgNone == << >>
CfgOne == << MkWinCfg("logs", "") >>
CfgTwo == << MkWinCfg("logs", "tail"), MkWinCfg("edit", "") >>
CfgDup == << MkWinCfg("logs", ""), MkWinCfg("logs", "tail") >>
CfgClaude == << MkWinCfg(ClaudeWindow, "") >>
Configs == {CfgNone, CfgOne, CfgTwo, CfgDup, CfgClaude}

\* The session of that name on the server (names are unique), 0 if none.
FindSession(s, name) ==
    LET I == {k \in 1..Len(s) : s[k].name = name}
    IN IF I = {} THEN 0 ELSE CHOOSE k \in I : TRUE
WindowsNamed(ws, n) == {k \in 1..Len(ws) : ws[k].name = n}
\* The multiplexer resolves a target "session:window" to the one window of
\* that name; no window or several windows of the name fail the command.
TargetWindow(ws, n) ==
    IF Cardinality(WindowsNamed(ws, n)) = 1
    THEN CHOOSE k \in WindowsNamed(ws, n) : TRUE ELSE 0
\* Session.GetWindowByName: the first window of that name.
GetWindowByName(ws, n) ==
    IF WindowsNamed(ws, n) = {} THEN 0
    ELSE CHOOSE k \in WindowsNamed(ws, n) : \A j \in WindowsNamed(ws, n) : k <= j

\* The commands of the multiplexer, on the server state s.
\* new-session -s name -c dir: refused when the name is taken.
NewSessionOK(s, name) == FindSession(s, name) = 0
NewSession(s, name, dir) ==
    Append(s, MkSession(name, dir, << MkWindow(ShellWindow, dir, ShellProc) >>, 1))
\* rename-window of window k of session h
RenameWindow(s, h, k, n) == [s EXCEPT ![h].wins[k].name = n]
\* new-window -n name -c dir: the new window becomes the selected one.
NewWindow(s, h, n, dir) ==
    [s EXCEPT ![h].wins = Append(@, MkWindow(n, dir, ShellProc)),
              ![h].sel = Len(s[h].wins) + 1]
\* select-window of window k of session h
SelectWindow(s, h, k) == [s EXCEPT ![h].sel = k]
\* respawn-pane -k: the process of the pane is killed and replaced.
RespawnPane(s, h, k, p) == [s EXCEPT ![h].wins[k].proc = p]
\* rename-session: refused when another session has the name.
RenameSessionOK(s, h, name) == FindSession(s, name) \in {0, h}
RenameSession(s, h, name) == [s EXCEPT ![h].name = name]

IsNumeric(name) == Len(name) > 0 /\ \A k \in 1..Len(name) : name[k] \in Digits

\* ------------------------------------------------------------------- state
VARIABLES
    fs,          \* the transcript root: path -> [exists, readable, mtime, content]
    cacheFile,   \* the cache file: [kind, entries]
    envSteps,    \* changes and faults the environment has caused so far
    pc,          \* position of the main goroutine of the running instance
    entries,     \* Cache.entries
    mu,          \* Cache.mu: [r |-> readers holding it, w |-> a writer holds it]
    files,       \* the []fileInfo of ScanAllCached
    validPaths,  \* the validPaths of ScanAllCached
    idx,         \* loop index of parseFilesWithCache over files
    hit,         \* per file index: the result of cache.Get in the loop
    results,     \* the buffered channel of parseFilesWithCache
    closed,      \* the channel has been closed
    wg,          \* the WaitGroup counter
    wpc,         \* per file index: position of the worker goroutine
    wres,        \* per file index: the worker's (sess, err) of ParseFile
    closer,      \* position of the goroutine that waits and closes
    sessions,    \* the slice collectResults builds and the scan returns
    saveRes,     \* what Save did: "none" before it, then "ok", "createfail", "partial"
    panicked,    \* a goroutine sent on the closed channel
    loadKind,    \* history: kind of the cache file when New loaded it
    parsed,      \* history: path -> ParseFile calls of this instance
    setLog,      \* history: path -> the last Set of this instance and what it replaced
    startEntries,\* history: Cache.entries when the scan started
    prev,        \* history: what the previous instance discovered, returned and saved
    srv,         \* the multiplexer server: its sessions, in order of creation
    attached,    \* per invocation: the session its operator's client shows
    inv,         \* per invocation of the controller: position and locals
    fg,          \* per invocation: the launch command run in the foreground
    faults,      \* multiplexer commands the environment has made fail so far
    scen,        \* the configuration and environment the invocations run in
    scanner,     \* ParseFile: the lines of the file and how many Scan has consumed
    pst,         \* ParseFile: sess and firstUserMsg
    ppc,         \* ParseFile: position in the function
    tree,        \* WalkDir: per entry of the root what the file system answers
    wstack,      \* WalkDir: the entries still to visit, next first
    wfiles,      \* findSessionFilesWithInfo: the slice files
    walkpc,      \* findSessionFilesWithInfo: position in the function
    inst,        \* per process instance: position, Cache.entries, file offset
    cfile,       \* the cache file as the messages written into it
    lastWriter,  \* history: the instance whose Encode wrote its value last
    picker,      \* the pickerModel
    removed,     \* the file paths the last Update gave to os.Remove
    disk,        \* the session files that exist
    cache,       \* a Cache with callers of its own: entries and mu
    clients,     \* per caller of that Cache: the method, the position, locals
    cpath        \* the file at the path of that Cache

pipeVars == << fs, cacheFile, envSteps, pc, entries, mu, files, validPaths, idx,
               hit, results, closed, wg, wpc, wres, closer, sessions, saveRes,
               panicked, loadKind, parsed, setLog, startEntries, prev >>
muxVars == << srv, attached, inv, fg, faults, scen >>
parseVars == << scanner, pst, ppc >>
walkVars == << tree, wstack, wfiles, walkpc >>
saveVars == << inst, cfile, lastWriter >>
pickVars == << picker, removed, disk >>
lockVars == << cache, clients, cpath >>
vars == << pipeVars, muxVars, parseVars, walkVars, saveVars, pickVars, lockVars >>
\* what each part of the program leaves alone
nonPipeVars == << muxVars, parseVars, walkVars, saveVars, pickVars, lockVars >>
nonMuxVars == << pipeVars, parseVars, walkVars, saveVars, pickVars, lockVars >>
nonParseVars == << pipeVars, muxVars, walkVars, saveVars, pickVars, lockVars >>
nonWalkVars == << pipeVars, muxVars, parseVars, saveVars, pickVars, lockVars >>
nonSaveVars == << pipeVars, muxVars, parseVars, walkVars, pickVars, lockVars >>
nonPickVars == << pipeVars, muxVars, parseVars, walkVars, saveVars, lockVars >>
nonLockVars == << pipeVars, muxVars, parseVars, walkVars, saveVars, pickVars >>

envVars == << fs, cacheFile, envSteps >>
histVars == << loadKind, parsed, setLog, startEntries, prev >>
scanVars == << files, validPaths, idx, hit, results, closed, wg, wpc, wres, closer,
               sessions, saveRes, panicked >>

\* Worker goroutines are named by the index of their file in files.
Workers == 1..Len(WalkOrder)

EmptyMap == [p \in {} |-> ZeroSession]
NoFile == [exists |-> FALSE, readable |-> TRUE, mtime |-> 1, content |-> << >>]
NoResult == [ok |-> FALSE, sess |-> ZeroSession]
NoParse == [err |-> FALSE, sess |-> ZeroSession]

\* ------------------------------------------------------------------- cache
\* Entry{ModTime, Session}
MkEntry(mtime, sess) == [ModTime |-> mtime, Session |-> sess]

\* Mutant of Get: an entry at least as new as the file counts as a hit.
Get_NotBefore(es, path, mtime) ==
    IF path \notin DOMAIN es THEN [ok |-> FALSE, sess |-> ZeroSession]
    ELSE IF es[path].ModTime < mtime THEN [ok |-> FALSE, sess |-> ZeroSession]
    ELSE [ok |-> TRUE, sess |-> es[path].Session]

\* Cache.Get between RLock and RUnlock.
Get(es, path, mtime) ==
    IF path \notin DOMAIN es THEN [ok |-> FALSE, sess |-> ZeroSession]
    ELSE IF es[path].ModTime # mtime THEN [ok |-> FALSE, sess |-> ZeroSession]
    ELSE [ok |-> TRUE, sess |-> es[path].Session]

\* Mutant of Set: an entry with a newer mtime is kept.
Set_KeepNewer(es, path, mtime, sess) ==
    [p \in DOMAIN es \cup {path} |->
        IF p = path /\ ~(path \in DOMAIN es /\ es[path].ModTime > mtime)
        THEN MkEntry(mtime, sess) ELSE es[p]]

\* Cache.Set between Lock and Unlock.
Set(es, path, mtime, sess) ==
    [p \in DOMAIN es \cup {path} |->
        IF p = path THEN MkEntry(mtime, sess) ELSE es[p]]

\* Mutant of Prune: the test of validPaths is inverted.
Prune_Inverted(es, valid) == [p \in DOMAIN es \ valid |-> es[p]]

\* Cache.Prune between Lock and Unlock.
Prune(es, valid) == [p \in DOMAIN es \cap valid |-> es[p]]

\* sync.RWMutex
CanRLock(m) == ~m.w
CanLock(m) == ~m.w /\ m.r = 0
RLock(m) == [m EXCEPT !.r = @ + 1]
RUnlock(m) == [m EXCEPT !.r = @ - 1]
Lock(m) == [m EXCEPT !.w = TRUE]
Unlock(m) == [m EXCEPT !.w = FALSE]
FreeMu == [r |-> 0, w |-> FALSE]

\* Mutant of load: the decoded map is dropped.
load_Empty(file) == EmptyMap

\* Cache.load into the empty map made by New: a missing file leaves the map
\* empty; Decode's error is dropped, so the map keeps what Decode stored in
\* it before it met the damage (nothing for a truncated file, whose single
\* value message is incomplete).
load(file) ==
    IF file.kind = "missing" THEN EmptyMap ELSE file.entries


\* ---------------------------------------------------------------- discovery
\* The WalkDir callback of findSessionFilesWithInfo on one directory entry.
IsSessionFile(path) ==
    HasSuffix(path.name, JsonlExt) /\ ~HasPrefix(Base(path), AgentPrefix)

RECURSIVE Walk(_, _)
Walk(f, i) ==
    IF i > Len(WalkOrder) THEN << >>
    ELSE LET path == WalkOrder[i]
         IN IF f[path].exists /\ IsSessionFile(path)
            THEN <<[path |-> path, modTime |-> f[path].mtime]>> \o Walk(f, i + 1)
            ELSE Walk(f, i + 1)

findSessionFilesWithInfo(f) == Walk(f, 1)

\* -------------------------------------------------------------------- Init
\* The transcript root holds two sessions of the same name in two project
\* directories, written at different times, and an agent transcript.
InitialFiles == {PathAgent, PathA1, PathB1}
InitialTime(p) == IF p = PathB1 THEN MaxTime ELSE 1
NoHistory == [valid |-> FALSE, files |-> {}, out |-> {}]
NoSets == [p \in {} |-> 0]

\* ------------------------------------------------------ controller: at rest
\* Invocations of the controller that may run at the same time.
Invs == 1..2
NoFg == [ran |-> FALSE, dir |-> EmptyStr]
OffInv ==
    [pc |-> "off", kind |-> "resume", proj |-> EmptyStr, home |-> 0,
     mgr |-> "none", name |-> EmptyStr, k |-> 0, sess |-> 0, path |-> "none",
     disp |-> FALSE,
     seen |-> [name |-> EmptyStr, n |-> 0], cmds |-> << >>]
NoScen == [cfg |-> CfgNone, inside |-> FALSE, dirOK |-> TRUE, srv0 |-> << >>]

MuxOff ==
    /\ srv = << >>
    /\ attached = [i \in Invs |-> 0]
    /\ inv = [i \in Invs |-> OffInv]
    /\ fg = [i \in Invs |-> NoFg]
    /\ faults = 0
    /\ scen = NoScen

\* No file is being parsed on its own.
ParseOff ==
    /\ scanner = [lines |-> << >>, pos |-> 0]
    /\ pst = [sess |-> ZeroSession, first |-> EmptyStr]
    /\ ppc = "off"

\* No walk on its own, no concurrent instances, no picker.
WalkOff ==
    /\ tree = << >>
    /\ wstack = << >>
    /\ wfiles = << >>
    /\ walkpc = "off"
SaveOff ==
    /\ inst = << >>
    /\ cfile = << >>
    /\ lastWriter = 0
PickOff ==
    /\ picker = [mode |-> "off"]
    /\ removed = << >>
    /\ disk = {}
LockOff ==
    /\ cache = << >>
    /\ clients = << >>
    /\ cpath = << >>

\* The state of an instance that has not started (or has exited).
Reset ==
    /\ files = << >>
    /\ validPaths = {}
    /\ idx = 0
    /\ hit = [i \in Workers |-> NoResult]
    /\ results = << >>
    /\ closed = FALSE
    /\ wg = 0
    /\ wpc = [i \in Workers |-> "none"]
    /\ wres = [i \in Workers |-> NoParse]
    /\ closer = "none"
    /\ sessions = << >>
    /\ saveRes = "none"
    /\ panicked = FALSE

InitPipeline ==
    /\ fs = [p \in Paths |->
               IF p \in InitialFiles
               THEN [exists |-> TRUE, readable |-> TRUE, mtime |-> InitialTime(p),
                     content |-> ContentUser]
               ELSE NoFile]
    /\ cacheFile = [kind |-> "missing", entries |-> EmptyMap]
    /\ envSteps = 0
    /\ pc = "idle"
    /\ entries = EmptyMap
    /\ mu = FreeMu
    /\ Reset
    /\ loadKind = "none"
    /\ parsed = [p \in Paths |-> 0]
    /\ setLog = NoSets
    /\ startEntries = EmptyMap
    /\ prev = NoHistory

\* The session metadata pipeline runs without the controller.
Init == InitPipeline /\ MuxOff /\ ParseOff /\ WalkOff /\ SaveOff /\ PickOff /\ LockOff

\* -------------------------------------------------------------- environment
\* A transcript is read by the walk and by the ParseFile of its worker, the
\* cache file by New and Save.  A change made at any other moment is seen
\* exactly as if it were made just before the next of these reads, so the
\* environment changes a transcript between instances or while its worker is
\* about to parse it, and the cache file between instances.
FsObserved(p) ==
    pc = "idle" \/ \E i \in Workers : wpc[i] = "parse" /\ files[i].path = p
CacheFileObserved == pc = "idle"

\* Another program writes, touches or creates a transcript.
EnvWrite(p, c, m) ==
    /\ envSteps < MaxEnvSteps
    /\ FsObserved(p)
    /\ fs[p] # [exists |-> TRUE, readable |-> fs[p].readable, mtime |-> m, content |-> c]
    /\ fs' = [fs EXCEPT ![p] = [exists |-> TRUE, readable |-> @.readable,
                                mtime |-> m, content |-> c]]
    /\ envSteps' = envSteps + 1
    /\ UNCHANGED << cacheFile, pc, entries, mu, scanVars, histVars >>

\* A transcript is removed.
EnvRemove(p) ==
    /\ envSteps < MaxEnvSteps
    /\ FsObserved(p)
    /\ fs[p].exists
    /\ fs' = [fs EXCEPT ![p] = NoFile]
    /\ envSteps' = envSteps + 1
    /\ UNCHANGED << cacheFile, pc, entries, mu, scanVars, histVars >>

\* The permissions of a transcript change: os.Open fails or succeeds.
EnvChmod(p) ==
    /\ envSteps < MaxEnvSteps
    /\ FsObserved(p)
    /\ fs[p].exists
    /\ fs' = [fs EXCEPT ![p].readable = ~@]
    /\ envSteps' = envSteps + 1
    /\ UNCHANGED << cacheFile, pc, entries, mu, scanVars, histVars >>

\* clearCache: Cache.Clear removes the cache file.
ClearCache ==
    /\ envSteps < MaxEnvSteps
    /\ CacheFileObserved
    /\ cacheFile.kind # "missing"
    /\ cacheFile' = [kind |-> "missing", entries |-> EmptyMap]
    /\ envSteps' = envSteps + 1
    /\ prev' = [prev EXCEPT !.valid = FALSE]
    /\ UNCHANGED << fs, pc, entries, mu, scanVars, loadKind, parsed, setLog,
                    startEntries >>

\* The cache file is damaged on disk: the entries in `keep` still decode
\* before the decoder meets the damage.
EnvCorruptCache(keep) ==
    /\ envSteps < MaxEnvSteps
    /\ CacheFileObserved
    /\ cacheFile.kind = "ok"
    /\ keep \subseteq DOMAIN cacheFile.entries
    /\ keep # DOMAIN cacheFile.entries \/ keep = {}
    /\ cacheFile' = [kind |-> "corrupt",
                     entries |-> [p \in keep |-> cacheFile.entries[p]]]
    /\ envSteps' = envSteps + 1
    /\ prev' = [prev EXCEPT !.valid = FALSE]
    /\ UNCHANGED << fs, pc, entries, mu, scanVars, loadKind, parsed, setLog,
                    startEntries >>


\* ------------------------------------------------------------ main goroutine
Range(q) == {q[i] : i \in 1..Len(q)}

\* Where the loop of parseFilesWithCache goes next.
LoopHead(i, fl) == IF i > Len(fl) THEN "go_closer" ELSE "get"

\* Mutant of ChanCap: make(chan Session), an unbuffered channel.
ChanCap_Unbuffered(fl) == 0
\* results := make(chan Session, len(files))
ChanCap(fl) == Len(fl)

\* loadAllSessions: cache.New() (load) and session.NewScanner().
New ==
    /\ pc = "idle"
    /\ entries' = load(cacheFile)
    /\ loadKind' = cacheFile.kind
    /\ startEntries' = load(cacheFile)
    /\ parsed' = [p \in Paths |-> 0]
    /\ setLog' = NoSets
    /\ pc' = "walk"
    /\ UNCHANGED << envVars, mu, scanVars, prev >>

\* ScanAllCached up to the call of parseFilesWithCache, which makes the channel.
ScanWalk ==
    /\ pc = "walk"
    /\ files' = findSessionFilesWithInfo(fs)
    /\ validPaths' = {files'[i].path : i \in 1..Len(files')}
    /\ idx' = 1
    /\ pc' = LoopHead(1, files')
    /\ UNCHANGED << envVars, entries, mu, hit, results, closed, wg, wpc, wres,
                    closer, sessions, saveRes, panicked, histVars >>

\* cache.Get: RLock.
GetLock ==
    /\ pc = "get" /\ ~panicked
    /\ CanRLock(mu)
    /\ mu' = RLock(mu)
    /\ pc' = "get_cs"
    /\ UNCHANGED << envVars, entries, scanVars, histVars >>

\* cache.Get: the lookup and RUnlock; then the loop body: a hit is sent on
\* the channel, a miss starts a worker (wg.Add(1); go ...).
GetRead ==
    /\ pc = "get_cs" /\ ~panicked
    /\ LET f == files[idx]
           res == Get(entries, f.path, f.modTime)
       IN /\ hit' = [hit EXCEPT ![idx] = res]
          /\ IF res.ok
             THEN /\ Len(results) < ChanCap(files)
                  /\ results' = Append(results, res.sess)
                  /\ UNCHANGED << wg, wpc >>
             ELSE /\ wg' = wg + 1
                  /\ wpc' = [wpc EXCEPT ![idx] = "parse"]
                  /\ UNCHANGED results
    /\ mu' = RUnlock(mu)
    /\ idx' = idx + 1
    /\ pc' = LoopHead(idx + 1, files)
    /\ UNCHANGED << envVars, entries, files, validPaths, closed, wres, closer,
                    sessions, saveRes, panicked, histVars >>

\* go func() { wg.Wait(); close(results) }()
GoCloser ==
    /\ pc = "go_closer" /\ ~panicked
    /\ closer' = "wait"
    /\ pc' = "collect"
    /\ UNCHANGED << envVars, entries, mu, files, validPaths, idx, hit, results,
                    closed, wg, wpc, wres, sessions, saveRes, panicked, histVars >>

\* collectResults: one iteration of the range over the channel.
CollectRecv ==
    /\ pc = "collect" /\ ~panicked
    /\ Len(results) > 0
    /\ sessions' = Append(sessions, Head(results))
    /\ results' = Tail(results)
    /\ UNCHANGED << envVars, pc, entries, mu, files, validPaths, idx, hit, closed,
                    wg, wpc, wres, closer, saveRes, panicked, histVars >>

\* collectResults: the range ends on the closed, drained channel.
CollectEnd ==
    /\ pc = "collect" /\ ~panicked
    /\ Len(results) = 0 /\ closed
    /\ pc' = "prune"
    /\ UNCHANGED << envVars, entries, mu, scanVars, histVars >>

\* cache.Prune(validPaths): Lock.
PruneLock ==
    /\ pc = "prune" /\ ~panicked
    /\ CanLock(mu)
    /\ mu' = Lock(mu)
    /\ pc' = "prune_cs"
    /\ UNCHANGED << envVars, entries, scanVars, histVars >>

\* cache.Prune(validPaths): the deletions and Unlock; ScanAllCached returns.
PruneDelete ==
    /\ pc = "prune_cs" /\ ~panicked
    /\ entries' = Prune(entries, validPaths)
    /\ mu' = Unlock(mu)
    /\ pc' = "save"
    /\ UNCHANGED << envVars, scanVars, histVars >>

\* c.Save(): RLock.
SaveLock ==
    /\ pc = "save" /\ ~panicked
    /\ CanRLock(mu)
    /\ mu' = RLock(mu)
    /\ pc' = "save_cs"
    /\ UNCHANGED << envVars, entries, scanVars, histVars >>

\* c.Save(): os.Create and Encode, then RUnlock.  The environment may make
\* os.Create fail (the file is left as it was) or stop the write midway (a
\* truncated file).  loadAllSessions drops the error.
SaveWrite(outcome) ==
    /\ pc = "save_cs" /\ ~panicked
    /\ outcome # "ok" => envSteps < MaxEnvSteps
    /\ envSteps' = IF outcome = "ok" THEN envSteps ELSE envSteps + 1
    /\ cacheFile' = CASE outcome = "ok" -> [kind |-> "ok", entries |-> entries]
                      [] outcome = "createfail" -> cacheFile
                      [] outcome = "partial" -> [kind |-> "corrupt", entries |-> EmptyMap]
    /\ saveRes' = outcome
    /\ mu' = RUnlock(mu)
    /\ pc' = "done"
    /\ UNCHANGED << fs, entries, files, validPaths, idx, hit, results, closed, wg,
                    wpc, wres, closer, sessions, panicked, histVars >>

\* The instance ends.
Exit ==
    /\ pc = "done"
    /\ prev' = [valid |-> saveRes = "ok" /\ cacheFile = [kind |-> "ok", entries |-> entries],
                files |-> Range(files),
                out |-> Range(sessions)]
    /\ pc' = "idle"
    /\ entries' = EmptyMap
    /\ mu' = FreeMu
    /\ files' = << >>
    /\ validPaths' = {}
    /\ idx' = 0
    /\ hit' = [i \in Workers |-> NoResult]
    /\ results' = << >>
    /\ closed' = FALSE
    /\ wg' = 0
    /\ wpc' = [i \in Workers |-> "none"]
    /\ wres' = [i \in Workers |-> NoParse]
    /\ closer' = "none"
    /\ sessions' = << >>
    /\ saveRes' = "none"
    /\ panicked' = FALSE
    /\ loadKind' = "none"
    /\ parsed' = [p \in Paths |-> 0]
    /\ setLog' = NoSets
    /\ startEntries' = EmptyMap
    /\ UNCHANGED envVars

\* ---------------------------------------------------------- worker goroutines
\* Mutant of WorkerParse: the error of ParseFile is not tested.
WorkerParse_IgnoreErr(i) ==
    /\ wpc[i] = "parse" /\ ~panicked
    /\ wres' = [wres EXCEPT ![i] = ParseFile(fs, files[i].path)]
    /\ wpc' = [wpc EXCEPT ![i] = "set"]
    /\ parsed' = [parsed EXCEPT ![files[i].path] = @ + 1]
    /\ UNCHANGED << envVars, pc, entries, mu, files, validPaths, idx, hit, results,
                    closed, wg, closer, sessions, saveRes, panicked, loadKind, setLog,
                    startEntries, prev >>

\* sess, err := ParseFile(fi.path)
WorkerParse(i) ==
    /\ wpc[i] = "parse" /\ ~panicked
    /\ LET r == ParseFile(fs, files[i].path)
       IN /\ wres' = [wres EXCEPT ![i] = r]
          /\ wpc' = [wpc EXCEPT ![i] = IF r.err THEN "wgdone" ELSE "set"]
    /\ parsed' = [parsed EXCEPT ![files[i].path] = @ + 1]
    /\ UNCHANGED << envVars, pc, entries, mu, files, validPaths, idx, hit, results,
                    closed, wg, closer, sessions, saveRes, panicked, loadKind, setLog,
                    startEntries, prev >>

\* Mutant of WorkerSetLock: Set takes the read lock.
WorkerSetLock_RLock(i) ==
    /\ wpc[i] = "set" /\ ~panicked
    /\ CanRLock(mu)
    /\ mu' = RLock(mu)
    /\ wpc' = [wpc EXCEPT ![i] = "set_cs"]
    /\ UNCHANGED << envVars, pc, entries, files, validPaths, idx, hit, results,
                    closed, wg, wres, closer, sessions, saveRes, panicked, histVars >>

\* cache.Set: Lock.
WorkerSetLock(i) ==
    /\ wpc[i] = "set" /\ ~panicked
    /\ CanLock(mu)
    /\ mu' = Lock(mu)
    /\ wpc' = [wpc EXCEPT ![i] = "set_cs"]
    /\ UNCHANGED << envVars, pc, entries, files, validPaths, idx, hit, results,
                    closed, wg, wres, closer, sessions, saveRes, panicked, histVars >>

\* Mutant of WorkerSetWrite: the entry is keyed by the parser's own stat
\* (sess.ModTime) instead of the discovered mtime.
WorkerSetWrite_ParsedTime(i) ==
    /\ wpc[i] = "set_cs" /\ ~panicked
    /\ LET f == files[i]
           had == f.path \in DOMAIN entries
       IN /\ entries' = Set(entries, f.path, wres[i].sess.ModTime, wres[i].sess)
          /\ setLog' = [p \in DOMAIN setLog \cup {f.path} |->
                          IF p = f.path
                          THEN [ModTime |-> wres[i].sess.ModTime,
                                Session |-> wres[i].sess,
                                had |-> had,
                                old |-> IF had THEN entries[f.path].ModTime ELSE 0]
                          ELSE setLog[p]]
    /\ mu' = Unlock(mu)
    /\ wpc' = [wpc EXCEPT ![i] = "send"]
    /\ UNCHANGED << envVars, pc, files, validPaths, idx, hit, results, closed, wg,
                    wres, closer, sessions, saveRes, panicked, loadKind, parsed,
                    startEntries, prev >>

\* cache.Set: the assignment and Unlock.
WorkerSetWrite(i) ==
    /\ wpc[i] = "set_cs" /\ ~panicked
    /\ LET f == files[i]
           had == f.path \in DOMAIN entries
       IN /\ entries' = Set(entries, f.path, f.modTime, wres[i].sess)
          /\ setLog' = [p \in DOMAIN setLog \cup {f.path} |->
                          IF p = f.path
                          THEN [ModTime |-> f.modTime, Session |-> wres[i].sess,
                                had |-> had,
                                old |-> IF had THEN entries[f.path].ModTime ELSE 0]
                          ELSE setLog[p]]
    /\ mu' = Unlock(mu)
    /\ wpc' = [wpc EXCEPT ![i] = "send"]
    /\ UNCHANGED << envVars, pc, files, validPaths, idx, hit, results, closed, wg,
                    wres, closer, sessions, saveRes, panicked, loadKind, parsed,
                    startEntries, prev >>

\* results <- sess: a send on a closed channel panics; a send on a full
\* channel blocks.
WorkerSend(i) ==
    /\ wpc[i] = "send" /\ ~panicked
    /\ IF closed
       THEN /\ panicked' = TRUE
            /\ UNCHANGED << results, wpc >>
       ELSE /\ Len(results) < ChanCap(files)
            /\ results' = Append(results, wres[i].sess)
            /\ wpc' = [wpc EXCEPT ![i] = "wgdone"]
            /\ UNCHANGED panicked
    /\ UNCHANGED << envVars, pc, entries, mu, files, validPaths, idx, hit, closed,
                    wg, wres, closer, sessions, saveRes, histVars >>

\* defer wg.Done()
WorkerDone(i) ==
    /\ wpc[i] = "wgdone" /\ ~panicked
    /\ wg' = wg - 1
    /\ wpc' = [wpc EXCEPT ![i] = "end"]
    /\ UNCHANGED << envVars, pc, entries, mu, files, validPaths, idx, hit, results,
                    closed, wres, closer, sessions, saveRes, panicked, histVars >>

\* Mutant of CloserClose: the channel is closed without wg.Wait().
CloserClose_NoWait ==
    /\ closer = "wait" /\ ~panicked
    /\ closed' = TRUE
    /\ closer' = "done"
    /\ UNCHANGED << envVars, pc, entries, mu, files, validPaths, idx, hit, results,
                    wg, wpc, wres, sessions, saveRes, panicked, histVars >>

\* wg.Wait() returns when the counter is zero; close(results).
CloserClose ==
    /\ closer = "wait" /\ ~panicked
    /\ wg = 0
    /\ closed' = TRUE
    /\ closer' = "done"
    /\ UNCHANGED << envVars, pc, entries, mu, files, validPaths, idx, hit, results,
                    wg, wpc, wres, sessions, saveRes, panicked, histVars >>

\* ------------------------------------------------------------ specification
Env ==
    \/ \E p \in Transcripts, c \in Contents, m \in 1..MaxTime : EnvWrite(p, c, m)
    \/ \E p \in Transcripts : EnvRemove(p)
    \/ \E p \in Transcripts : EnvChmod(p)
    \/ ClearCache
    \/ \E keep \in SUBSET Paths : EnvCorruptCache(keep)

Main ==
    \/ New
    \/ ScanWalk
    \/ GetLock
    \/ GetRead
    \/ GoCloser
    \/ CollectRecv
    \/ CollectEnd
    \/ PruneLock
    \/ PruneDelete
    \/ SaveLock
    \/ \E outcome \in {"ok", "createfail", "partial"} : SaveWrite(outcome)
    \/ Exit

Worker ==
    \E i \in Workers :
        \/ WorkerParse(i)
        \/ WorkerSetLock(i)
        \/ WorkerSetWrite(i)
        \/ WorkerSend(i)
        \/ WorkerDone(i)

Next ==
    \/ Env /\ UNCHANGED nonPipeVars
    \/ Main /\ UNCHANGED nonPipeVars
    \/ Worker /\ UNCHANGED nonPipeVars
    \/ CloserClose /\ UNCHANGED nonPipeVars

Spec == Init /\ [][Next]_vars


\* =================================================================== claims
FileIdx == 1..Len(files)
\* parseFilesWithCache has returned its slice.
ParseReturned == pc \in {"prune", "prune_cs", "save", "save_cs", "done"}
\* ScanAllCached has returned (Prune is done).
ScanReturned == pc \in {"save", "save_cs", "done"}
Emitted == Range(results) \cup Range(sessions)
InCache(es, path, mtime) == path \in DOMAIN es /\ es[path].ModTime = mtime
\* The record the scan owes for file i once its Get or its worker is done.
Owed(i) == IF hit[i].ok THEN hit[i].sess ELSE wres[i].sess
\* The map after the Sets of this instance, in any serial order (the Sets of
\* one scan are to distinct paths).
AfterSets ==
    [p \in DOMAIN startEntries \cup DOMAIN setLog |->
        IF p \in DOMAIN setLog
        THEN MkEntry(setLog[p].ModTime, setLog[p].Session)
        ELSE startEntries[p]]

\* C1 as claimed: when the previous instance saved its cache and the file
\* survived untouched, every file this scan discovers with the same path and
\* mtime as the previous scan did is never handed to the parser, and the slice
\* this scan returns holds the record the previous scan returned for it.
C1_Original ==
    (prev.valid /\ pc # "idle") =>
        \A i \in FileIdx :
            files[i] \in prev.files =>
                /\ parsed[files[i].path] = 0
                /\ ParseReturned =>
                      \E r \in prev.out :
                          r.FilePath = files[i].path /\ r \in Range(sessions)

\* C1 amended  Cache hit stability.  When the previous instance saved its
\* cache and the file survived untouched, every file this scan discovers with
\* the same path and mtime for which the previous scan emitted a record is
\* never handed to the parser, and the slice this scan returns holds that same
\* record, whatever the file's content is now.
C1_CacheHitStability ==
    (prev.valid /\ pc # "idle") =>
        \A i \in FileIdx :
            \A r \in prev.out :
                (files[i] \in prev.files /\ r.FilePath = files[i].path) =>
                    /\ parsed[files[i].path] = 0
                    /\ ParseReturned => r \in Range(sessions)

\* C1 witness: a second scan has returned the previous record of a file whose
\* content was rewritten under the same mtime (parsing it now would give
\* another record).
C1_Witness ==
    /\ prev.valid /\ ParseReturned
    /\ \E i \in FileIdx : \E r \in prev.out :
          /\ files[i] \in prev.files /\ r.FilePath = files[i].path
          /\ r \in Range(sessions)
          /\ ~ParseFile(fs, files[i].path).err
          /\ ParseFile(fs, files[i].path).sess # r

\* C2  Get hits exactly on an entry stored under the path with an equal
\* modTime.  Every Get of the scan loop hit if and only if the map held the
\* path with exactly the discovered mtime, and returned the stored record;
\* and on every map the instance reaches, Get at any time hits only at the
\* stored modTime, with the record of the latest Set for that path.
C2_GetExactMtime ==
    /\ \A i \in FileIdx :
          i < idx =>
             /\ hit[i].ok <=> InCache(startEntries, files[i].path, files[i].modTime)
             /\ hit[i].ok => hit[i].sess = startEntries[files[i].path].Session
    /\ \A p \in Paths : \A t \in 0..(MaxTime + 1) :
          /\ Get(entries, p, t).ok <=> InCache(entries, p, t)
          /\ (Get(entries, p, t).ok /\ p \in DOMAIN setLog) =>
                Get(entries, p, t).sess = setLog[p].Session

\* C2 witness: in one scan a Get hit, and another Get missed although the
\* path was stored, with a later modTime than the one asked for.
C2_Witness ==
    \E i, j \in FileIdx :
        /\ i < idx /\ j < idx
        /\ hit[i].ok
        /\ ~hit[j].ok
        /\ files[j].path \in DOMAIN startEntries
        /\ startEntries[files[j].path].ModTime > files[j].modTime

\* C3  Once the workers are done, the parser has been called exactly once
\* for each discovered file the cache did not hold with exactly its (path,
\* mtime) and never for another file; and every record on the channel or in
\* the slice is, from the moment it is emitted, what Get(path, discovered
\* mtime) returns.
C3_ParseOncePerMiss ==
    /\ ParseReturned =>
          \A p \in Paths :
             parsed[p] =
                IF \E i \in FileIdx :
                      files[i].path = p /\ ~InCache(startEntries, p, files[i].modTime)
                THEN 1 ELSE 0
    /\ pc # "idle" =>
          \A r \in Emitted :
             \E i \in FileIdx :
                /\ files[i].path = r.FilePath
                /\ Get(entries, files[i].path, files[i].modTime) = [ok |-> TRUE, sess |-> r]

\* C3 witness: a scan has returned with one file served from the cache and
\* never parsed, and another, stored under an older mtime, parsed once,
\* emitted and now a hit.
C3_Witness ==
    /\ ScanReturned
    /\ \E i, j \in FileIdx :
          /\ hit[i].ok /\ parsed[files[i].path] = 0
          /\ ~hit[j].ok /\ ~wres[j].err
          /\ files[j].path \in DOMAIN startEntries
          /\ parsed[files[j].path] = 1
          /\ wres[j].sess \in Range(sessions)
          /\ Get(entries, files[j].path, files[j].modTime).ok

C5_ReturnAfterWorkers ==
    /\ ~panicked
    /\ ParseReturned =>
          /\ \A i \in Workers : wpc[i] \in {"none", "end"}
          /\ closed /\ results = << >>
          /\ Range(sessions) = {Owed(i) : i \in {k \in FileIdx : ~wres[k].err}}
          /\ Len(sessions) = Cardinality({k \in FileIdx : ~wres[k].err})

\* C5 witness: a scan has returned a slice holding a cached record and a
\* worker's record.
C5_Witness ==
    /\ ParseReturned
    /\ \E i, j \in FileIdx :
          /\ hit[i].ok /\ hit[i].sess \in Range(sessions)
          /\ wpc[j] = "end" /\ ~wres[j].err /\ wres[j].sess \in Range(sessions)

\* C6  Prune runs after every worker's Set; when ScanAllCached has returned,
\* the map holds no path outside the discovered set, and for every discovered
\* path exactly the entry it had before Prune (the last Set of this scan, else
\* the loaded entry, else none).
C6_PruneExact ==
    /\ pc \in {"prune", "prune_cs"} =>
          /\ \A i \in Workers : wpc[i] \in {"none", "end"}
          /\ pc = "prune" => entries = AfterSets
    /\ ScanReturned =>
          /\ DOMAIN entries = DOMAIN AfterSets \cap validPaths
          /\ \A p \in DOMAIN entries : entries[p] = AfterSets[p]

\* C6 witness: after a rescan the entry of a removed file is gone and the
\* entry of an untouched file is still the loaded one.
C6_Witness ==
    /\ ScanReturned
    /\ \E p \in DOMAIN startEntries : p \notin validPaths /\ p \notin DOMAIN entries
    /\ \E q \in DOMAIN startEntries :
          q \in DOMAIN entries /\ q \notin DOMAIN setLog /\ entries[q] = startEntries[q]

\* Goroutines inside the critical section of Cache.mu.
WritersIn ==
    {i \in Workers : wpc[i] = "set_cs"} \cup (IF pc = "prune_cs" THEN {0} ELSE {})
ReadersIn == IF pc \in {"get_cs", "save_cs"} THEN {0} ELSE {}

\* C7  Reader/writer discipline of Cache.mu: never two writers (Set, Prune)
\* inside together, never a writer together with a reader (Get, Save); and
\* when the workers are done the map is the loaded map with the Sets applied
\* in a serial order.
C7_ReadersWriters ==
    /\ Cardinality(WritersIn) <= 1
    /\ WritersIn # {} => ReadersIn = {}
    /\ mu.w <=> WritersIn # {}
    /\ mu.r = Cardinality(ReadersIn)
    /\ pc = "prune" => entries = AfterSets

\* C7 witness: a worker is inside Set while the main goroutine waits to
\* enter Get and another worker waits to enter Set.
C7_Witness ==
    \E i, j \in Workers :
        /\ wpc[i] = "set_cs"
        /\ wpc[j] = "set"
        /\ pc = "get"

\* C8 as claimed: the returned records have pairwise distinct filePath and
\* pairwise distinct id.
C8_Original ==
    ParseReturned =>
        \A a, b \in 1..Len(sessions) :
            a # b => /\ sessions[a].FilePath # sessions[b].FilePath
                     /\ sessions[a].ID # sessions[b].ID

\* C8 amended: the returned records have pairwise distinct filePath, one per
\* discovered file at most; two of them have the same id exactly when their
\* files have the same base name, so ids are distinct among files of distinct
\* base names only.
C8_DistinctPaths ==
    ParseReturned =>
        /\ \A a, b \in 1..Len(sessions) :
              a # b => /\ sessions[a].FilePath # sessions[b].FilePath
                       /\ sessions[a].ID = sessions[b].ID <=>
                             Base(sessions[a].FilePath) = Base(sessions[b].FilePath)
        /\ \A a \in 1..Len(sessions) : sessions[a].FilePath \in validPaths

\* C8 witness: a scan returned three records, from the cache and from
\* workers, two of the same base name in different project directories.
C8_Witness ==
    /\ ParseReturned
    /\ Len(sessions) = 3
    /\ \E i, j \in FileIdx : hit[i].ok /\ ~hit[j].ok /\ ~wres[j].err

\* C9 as claimed: a cache constructed from a missing, truncated or corrupt
\* file is empty, and after the scan and a successful Save the file holds
\* exactly one entry per returned record, keyed by its discovered mtime.
C9_EmptyOnLoadFailure ==
    /\ (pc = "walk" /\ loadKind \in {"missing", "corrupt"}) => entries = EmptyMap
    /\ (pc = "done" /\ saveRes = "ok" /\ loadKind \in {"missing", "corrupt"}) =>
          /\ cacheFile.kind = "ok"
          /\ DOMAIN cacheFile.entries = {r.FilePath : r \in Range(sessions)}
          /\ \A i \in FileIdx :
                ~wres[i].err =>
                    cacheFile.entries[files[i].path] = MkEntry(files[i].modTime, Owed(i))

\* C10  Set overwrites unconditionally: the step that ends a Set leaves the
\* map so that Get(path, mtime) hits with the record just stored, whatever
\* was stored before, and leaves the entry (or the absence) of every other
\* path as it was.
C10_SetOverwrites ==
    [][\A i \in Workers :
          (wpc[i] = "set_cs" /\ wpc'[i] = "send") =>
              /\ Get(entries', files[i].path, files[i].modTime)
                    = [ok |-> TRUE, sess |-> wres[i].sess]
              /\ \A q \in Paths \ {files[i].path} :
                    /\ q \in DOMAIN entries' <=> q \in DOMAIN entries
                    /\ q \in DOMAIN entries => entries'[q] = entries[q]]_vars

\* C10 witness: a Set has replaced an entry that carried a newer mtime.
C10_Witness ==
    \E p \in DOMAIN setLog :
        /\ setLog[p].had
        /\ setLog[p].old > setLog[p].ModTime
        /\ Get(entries, p, setLog[p].ModTime).ok

\* =========================================================================
\* The session-lifecycle controller: resumeSession and createNewProject of
\* main.go driving the multiplexer through the Manager of internal/tmux.
\* Every command of the multiplexer is one blocking call and one step; the
\* environment may make a command fail (ok = FALSE), MaxFaults times overall.
\* =========================================================================
\* -------------------------------------------------------------------- bounds
\* Commands of the multiplexer the environment makes fail.
MaxFaults == 1
\* Windows of the session the operator starts the tool in: 1..MaxHomeWindows.
MaxHomeWindows == 3

ProjPaths == {EmptyStr, StrDot, StrRoot, PathWidgets}
Kinds == {"resume", "create"}

\* The launch command of an invocation: claudeCmd of resumeInTmux, and the
\* plain claude of createProjectInTmux.
LaunchCmd(kind) == IF kind = "resume" THEN "claude --resume" ELSE "claude"

\* ------------------------------------------------------------------- Init
HomeSession(n, w) ==
    MkSession(n, StartDir, [k \in 1..w |-> MkWindow(ShellWindow, StartDir, ShellProc)], 1)
\* A session left by an earlier invocation for the project: the claude
\* window and the configured windows except the one at position miss
\* (0: none is missing); the operator last looked at its last window.
RECURSIVE CfgWindows(_, _, _, _)
CfgWindows(cfg, k, miss, dir) ==
    IF k > Len(cfg) THEN << >>
    ELSE (IF k = miss THEN << >> ELSE << MkWindow(cfg[k].Name, dir, ShellProc) >>)
         \o CfgWindows(cfg, k + 1, miss, dir)
EarlierSession(proj, cfg, miss) ==
    LET ws == << MkWindow(ClaudeWindow, proj, OtherProc) >> \o CfgWindows(cfg, 1, miss, proj)
    IN MkSession(ProjectToSessionName(proj), proj, ws, Len(ws))

\* A project directory other than proj, of the same derived name where proj
\* has one.
Namesake(proj) ==
    IF proj = PathWidgets THEN PathWidgetsV
    ELSE IF proj = EmptyStr THEN StrDot ELSE EmptyStr

StartInv(kind, proj, home) ==
    [OffInv EXCEPT !.pc = "start", !.kind = kind, !.proj = proj, !.home = home]

InitMux(cfg, inside, dirOK, proj, kind, hn, hw, tgt, miss, second) ==
    LET s0 == << HomeSession(hn, hw) >>
              \o (IF second = "other" THEN << HomeSession(<<"8">>, 1) >> ELSE << >>)
              \o (IF tgt = 0 THEN << >>
                  ELSE << EarlierSession(IF tgt = 1 THEN proj ELSE Namesake(proj),
                                         cfg, miss) >>)
    IN /\ srv = s0
       /\ scen = [cfg |-> cfg, inside |-> inside, dirOK |-> dirOK, srv0 |-> s0]
       /\ inv = [i \in Invs |->
                   IF i = 1 THEN StartInv(kind, proj, 1)
                   ELSE IF second = "same" THEN StartInv("resume", proj, 1)
                   ELSE IF second = "other" THEN StartInv("resume", proj, 2)
                   ELSE OffInv]
       /\ attached = [i \in Invs |->
                   IF i = 1 THEN 1
                   ELSE IF second = "same" THEN 1
                   ELSE IF second = "other" THEN 2 ELSE 0]
       /\ fg = [i \in Invs |-> NoFg]
       /\ faults = 0

InitTmux ==
    /\ InitPipeline
    /\ ParseOff /\ WalkOff /\ SaveOff /\ PickOff /\ LockOff
    /\ \E cfg \in Configs, inside \in BOOLEAN, dirOK \in BOOLEAN, proj \in ProjPaths,
          kind \in Kinds, hn \in {Str7, StrDev}, hw \in 1..MaxHomeWindows,
          tgt \in 0..2, second \in {"off", "same", "other"} :
         \E miss \in 0..Len(cfg) :
            \* the earlier session: none, one made for the project, or one made
            \* for another project of the same derived name
            /\ tgt = 0 => miss = 0
            /\ tgt = 2 => /\ ProjectToSessionName(Namesake(proj)) = ProjectToSessionName(proj)
                          /\ miss = 0 /\ second = "off"
            \* outside the multiplexer its state is not looked at
            /\ ~inside => cfg = CfgOne /\ hn = Str7 /\ hw = 1 /\ tgt = 0 /\ second = "off"
            /\ ~dirOK => second = "off"
            /\ second # "off" => kind = "resume"
            /\ InitMux(cfg, inside, dirOK, proj, kind, hn, hw, tgt, miss, second)

\* ------------------------------------------------------------ bookkeeping
\* A command may be made to fail while the environment has faults left.
MayFail(ok) == ok \/ faults < MaxFaults
Spend(ok) == faults' = IF ok THEN faults ELSE faults + 1
\* Invocation i issued command c, which succeeded or not.
Issue(r, c, succ) == [r EXCEPT !.cmds = Append(@, [cmd |-> c, ok |-> succ])]
Goto(r, p) == [r EXCEPT !.pc = p]
\* os.Exit(1) after the error was printed
Fatal(r) == Goto(r, "fatal")

\* ---------------------------------------------------------------- main.go
\* Mutant of resumeSession: the TMUX environment variable is not looked at.
resumeSession_IgnoreEnv(i) ==
    /\ inv[i].pc = "start"
    /\ inv' = [inv EXCEPT ![i] = Goto(inv[i], "new")]
    /\ UNCHANGED << srv, attached, fg, faults, scen, nonMuxVars >>

\* resumeSession and createNewProject: tmux.IsInsideTmux() chooses between
\* the controller and the foreground.
resumeSession(i) ==
    /\ inv[i].pc = "start"
    /\ inv' = [inv EXCEPT ![i] = Goto(inv[i], IF scen.inside THEN "new" ELSE "direct")]
    /\ UNCHANGED << srv, attached, fg, faults, scen, nonMuxVars >>

\* tmux.New(), and on success sessionName := ProjectToSessionName(...).
tmuxNew(i, ok) ==
    LET r == inv[i]
    IN /\ r.pc = "new"
       /\ MayFail(ok) /\ Spend(ok)
       /\ inv' = [inv EXCEPT ![i] =
                    IF ok
                    THEN [r EXCEPT !.mgr = "ok",
                                   !.name = ProjectToSessionName(r.proj),
                                   !.pc = IF r.kind = "resume" THEN "exists" ELSE "disp"]
                    ELSE [r EXCEPT !.mgr = "err", !.pc = "direct"]]
       /\ UNCHANGED << srv, attached, fg, scen, nonMuxVars >>

\* resumeDirectly and createProjectDirectly: os.Chdir with its error dropped
\* (resumeDirectly skips it for an empty path), then the command is run and
\* its error dropped.
resumeDirectly(i) ==
    LET r == inv[i]
    IN /\ r.pc = "direct"
       /\ fg' = [fg EXCEPT ![i] =
                   [ran |-> TRUE,
                    dir |-> IF r.proj # EmptyStr /\ scen.dirOK THEN r.proj ELSE StartDir]]
       /\ inv' = [inv EXCEPT ![i] = [r EXCEPT !.pc = "ok", !.path = "direct"]]
       /\ UNCHANGED << srv, attached, faults, scen, nonMuxVars >>

\* if !mgr.SessionExists(sessionName)
SessionExists(i) ==
    LET r == inv[i]
    IN /\ r.pc = "exists"
       /\ inv' = [inv EXCEPT ![i] =
                    IF FindSession(srv, r.name) # 0
                    THEN [r EXCEPT !.pc = "switch", !.path = "existing"]
                    ELSE Goto(r, "disp")]
       /\ UNCHANGED << srv, attached, fg, faults, scen, nonMuxVars >>

\* Mutant of IsDisposableSession: the name of the session is not looked at.
IsDisposableSession_AnyName(s, h) == Len(s[h].wins) <= 2

\* Manager.IsDisposableSession on the session the tool runs in.
IsDisposableSession(s, h) == IsNumeric(s[h].name) /\ Len(s[h].wins) <= 2

\* Mutant of RepurposeOrCreate: a new session is created whatever the
\* current session is.
RepurposeOrCreate_AlwaysCreate(i) ==
    LET r == inv[i]
    IN /\ r.pc = "disp"
       /\ inv' = [inv EXCEPT ![i] =
                    [r EXCEPT !.disp = IsDisposableSession(srv, r.home),
                              !.seen = [name |-> srv[r.home].name,
                                        n |-> Len(srv[r.home].wins)],
                              !.pc = "cr_new", !.path = "create"]]
       /\ UNCHANGED << srv, attached, fg, faults, scen, nonMuxVars >>

\* if disposable, _ := mgr.IsDisposableSession(); disposable { ... }
RepurposeOrCreate(i) ==
    LET r == inv[i]
        d == IsDisposableSession(srv, r.home)
    IN /\ r.pc = "disp"
       /\ inv' = [inv EXCEPT ![i] =
                    [r EXCEPT !.disp = d,
                              !.seen = [name |-> srv[r.home].name,
                                        n |-> Len(srv[r.home].wins)],
                              !.pc = IF d THEN "rp_rename" ELSE "cr_new",
                              !.path = IF d THEN "repurpose" ELSE "create"]]
       /\ UNCHANGED << srv, attached, fg, faults, scen, nonMuxVars >>

\* Where the loop over the configured windows goes after window k.
AfterWindow(r, k, add, end) ==
    IF k + 1 <= Len(scen.cfg) THEN [r EXCEPT !.pc = add, !.k = k + 1]
    ELSE [r EXCEPT !.pc = end, !.k = 0]
LoopStart(r, add, end) == AfterWindow(r, 0, add, end)

\* Manager.RepurposeCurrentSession: the session the tool runs in is renamed
\* to the target name and retargeted to the project directory, its first
\* window becomes the claude window, and the configured windows are added
\* with their startup commands.  Any failing command is returned as the error.
RepurposeCurrentSession(i, ok) ==
    LET r == inv[i]
        h == r.home
        w == scen.cfg[r.k]
    IN /\ MayFail(ok) /\ Spend(ok)
       /\ \/ /\ r.pc = "rp_rename"
             /\ LET succ == ok /\ RenameSessionOK(srv, h, r.name)
                IN /\ srv' = IF succ THEN RenameSession(srv, h, r.name) ELSE srv
                   /\ inv' = [inv EXCEPT ![i] =
                                IF succ THEN Goto(Issue(r, "rename-session", TRUE), "rp_cd")
                                ELSE Fatal(Issue(r, "rename-session", FALSE))]
          \/ /\ r.pc = "rp_cd"
             /\ srv' = IF ok THEN [srv EXCEPT ![h].dir = r.proj] ELSE srv
             /\ inv' = [inv EXCEPT ![i] =
                          IF ok THEN Goto(Issue(r, "retarget", TRUE), "rp_win")
                          ELSE Fatal(Issue(r, "retarget", FALSE))]
          \/ /\ r.pc = "rp_win"
             /\ srv' = IF ok THEN RenameWindow(srv, h, 1, ClaudeWindow) ELSE srv
             /\ inv' = [inv EXCEPT ![i] =
                          IF ok THEN LoopStart(Issue(r, "rename-window", TRUE),
                                               "rp_add", "rp_respawn")
                          ELSE Fatal(Issue(r, "rename-window", FALSE))]
          \/ /\ r.pc = "rp_add"
             /\ srv' = IF ok THEN NewWindow(srv, h, w.Name, r.proj) ELSE srv
             /\ inv' = [inv EXCEPT ![i] =
                          IF ~ok THEN Fatal(Issue(r, "new-window", FALSE))
                          ELSE IF w.Command # "" THEN Goto(Issue(r, "new-window", TRUE), "rp_cmd")
                          ELSE AfterWindow(Issue(r, "new-window", TRUE), r.k,
                                           "rp_add", "rp_respawn")]
          \/ /\ r.pc = "rp_cmd"
             /\ srv' = IF ok THEN RespawnPane(srv, h, Len(srv[h].wins),
                                              MkProc(w.Command, TRUE, i))
                       ELSE srv
             /\ inv' = [inv EXCEPT ![i] =
                          IF ok THEN AfterWindow(Issue(r, "respawn-window", TRUE), r.k,
                                                 "rp_add", "rp_respawn")
                          ELSE Fatal(Issue(r, "respawn-window", FALSE))]
       /\ UNCHANGED << attached, fg, scen, nonMuxVars >>

\* Manager.RespawnWindow: respawn-pane -k -t "sessionName:windowName" command.
\* The result is the server after the command and whether it succeeded.
RespawnWindow(s, sessionName, windowName, p, ok) ==
    LET h == FindSession(s, sessionName)
        k == IF h = 0 THEN 0 ELSE TargetWindow(s[h].wins, windowName)
    IN IF ok /\ k # 0 THEN [srv |-> RespawnPane(s, h, k, p), ok |-> TRUE]
       ELSE [srv |-> s, ok |-> FALSE]

\* resumeInTmux and createProjectInTmux after a repurpose: the claude window
\* is respawned with the wrapped launch command.
RepurposeRespawn(i, ok) ==
    LET r == inv[i]
        res == RespawnWindow(srv, r.name, ClaudeWindow,
                             MkProc(LaunchCmd(r.kind), TRUE, i), ok)
    IN /\ r.pc = "rp_respawn"
       /\ MayFail(ok) /\ Spend(ok)
       /\ srv' = res.srv
       /\ inv' = [inv EXCEPT ![i] =
                    IF res.ok THEN Goto(Issue(r, "respawn-launch", TRUE), "rp_select")
                    ELSE Fatal(Issue(r, "respawn-launch", FALSE))]
       /\ UNCHANGED << attached, fg, scen, nonMuxVars >>

\* ... and mgr.SelectWindow(sessionName, "claude") ends the invocation.
RepurposeSelect(i, ok) ==
    LET r == inv[i]
        h == FindSession(srv, r.name)
        k == IF h = 0 THEN 0 ELSE TargetWindow(srv[h].wins, ClaudeWindow)
        succ == ok /\ k # 0
    IN /\ r.pc = "rp_select"
       /\ MayFail(ok) /\ Spend(ok)
       /\ srv' = IF succ THEN SelectWindow(srv, h, k) ELSE srv
       /\ inv' = [inv EXCEPT ![i] =
                    IF succ THEN Goto(Issue(r, "select-window", TRUE), "ok")
                    ELSE Fatal(Issue(r, "select-window", FALSE))]
       /\ UNCHANGED << attached, fg, scen, nonMuxVars >>

\* ------------------------------------------- Manager.CreateProjectSession
\* m.tmux.NewSession: its error is returned.
CreateNewSession(i, ok) ==
    LET r == inv[i]
        succ == ok /\ NewSessionOK(srv, r.name)
    IN /\ r.pc = "cr_new"
       /\ MayFail(ok) /\ Spend(ok)
       /\ srv' = IF succ THEN NewSession(srv, r.name, r.proj) ELSE srv
       /\ inv' = [inv EXCEPT ![i] =
                    IF succ
                    THEN [Issue(r, "new-session", TRUE) EXCEPT !.pc = "cr_rename",
                                                               !.sess = Len(srv) + 1]
                    ELSE Fatal(Issue(r, "new-session", FALSE))]
       /\ UNCHANGED << attached, fg, scen, nonMuxVars >>

\* existingWindows[0].Rename("claude"): the errors of ListWindows and of
\* Rename are dropped.
CreateRename(i, ok) ==
    LET r == inv[i]
    IN /\ r.pc = "cr_rename"
       /\ MayFail(ok) /\ Spend(ok)
       /\ srv' = IF ok THEN RenameWindow(srv, r.sess, 1, ClaudeWindow) ELSE srv
       /\ inv' = [inv EXCEPT ![i] =
                    LoopStart(Issue(r, "rename-window", ok), "cr_add", "cr_select")]
       /\ UNCHANGED << attached, fg, scen, nonMuxVars >>

\* sess.NewWindow for the window at position k: its error is returned.
CreateNewWindow(i, ok) ==
    LET r == inv[i]
        w == scen.cfg[r.k]
    IN /\ r.pc = "cr_add"
       /\ MayFail(ok) /\ Spend(ok)
       /\ srv' = IF ok THEN NewWindow(srv, r.sess, w.Name, r.proj) ELSE srv
       /\ inv' = [inv EXCEPT ![i] =
                    IF ~ok THEN Fatal(Issue(r, "new-window", FALSE))
                    ELSE IF w.Command # "" THEN Goto(Issue(r, "new-window", TRUE), "cr_cmd")
                    ELSE AfterWindow(Issue(r, "new-window", TRUE), r.k,
                                     "cr_add", "cr_select")]
       /\ UNCHANGED << attached, fg, scen, nonMuxVars >>

\* respawn-pane -k -t "name:winCfg.Name" with the wrapped startup command:
\* the error of m.tmux.Command is dropped.
CreateWindowCommand(i, ok) ==
    LET r == inv[i]
        w == scen.cfg[r.k]
        res == RespawnWindow(srv, r.name, w.Name, MkProc(w.Command, TRUE, i), ok)
    IN /\ r.pc = "cr_cmd"
       /\ MayFail(ok) /\ Spend(ok)
       /\ srv' = res.srv
       /\ inv' = [inv EXCEPT ![i] =
                    AfterWindow(Issue(r, "respawn-window", res.ok), r.k,
                                "cr_add", "cr_select")]
       /\ UNCHANGED << attached, fg, scen, nonMuxVars >>

\* w, err := sess.GetWindowByName("claude"); if err == nil { w.Select() }:
\* without such a window nothing is issued, and the error of Select is
\* dropped.  CreateProjectSession returns nil.
CreateSelect(i, ok) ==
    LET r == inv[i]
        k == GetWindowByName(srv[r.sess].wins, ClaudeWindow)
    IN /\ r.pc = "cr_select"
       /\ IF k = 0 THEN ok ELSE MayFail(ok)
       /\ Spend(ok)
       /\ srv' = IF ok /\ k # 0 THEN SelectWindow(srv, r.sess, k) ELSE srv
       /\ inv' = [inv EXCEPT ![i] =
                    Goto(IF k = 0 THEN r ELSE Issue(r, "select-window", ok), "switch")]
       /\ UNCHANGED << attached, fg, scen, nonMuxVars >>

\* ---------------------------------------------------------------- main.go
\* mgr.SwitchToSession(sessionName): switch-client -t sessionName.
SwitchToSession(i, ok) ==
    LET r == inv[i]
        h == FindSession(srv, r.name)
        succ == ok /\ h # 0
    IN /\ r.pc = "switch"
       /\ MayFail(ok) /\ Spend(ok)
       /\ attached' = IF succ THEN [attached EXCEPT ![i] = h] ELSE attached
       /\ inv' = [inv EXCEPT ![i] =
                    IF succ THEN Goto(Issue(r, "switch-client", TRUE), "respawn")
                    ELSE Fatal(Issue(r, "switch-client", FALSE))]
       /\ UNCHANGED << srv, fg, scen, nonMuxVars >>

\* mgr.RespawnWindow(sessionName, "claude", claudeCmd) ends the invocation.
LaunchRespawn(i, ok) ==
    LET r == inv[i]
        res == RespawnWindow(srv, r.name, ClaudeWindow,
                             MkProc(LaunchCmd(r.kind), FALSE, i), ok)
    IN /\ r.pc = "respawn"
       /\ MayFail(ok) /\ Spend(ok)
       /\ srv' = res.srv
       /\ inv' = [inv EXCEPT ![i] =
                    IF res.ok THEN Goto(Issue(r, "respawn-launch", TRUE), "ok")
                    ELSE Fatal(Issue(r, "respawn-launch", FALSE))]
       /\ UNCHANGED << attached, fg, scen, nonMuxVars >>

\* ------------------------------------------------------------ specification
Direct == \E i \in Invs : resumeSession(i) \/ resumeDirectly(i)
Decide == \E i \in Invs : SessionExists(i) \/ RepurposeOrCreate(i)
Construct == \E i \in Invs, ok \in BOOLEAN : tmuxNew(i, ok)
Repurpose ==
    \E i \in Invs, ok \in BOOLEAN :
        \/ RepurposeCurrentSession(i, ok)
        \/ RepurposeRespawn(i, ok)
        \/ RepurposeSelect(i, ok)
Create ==
    \E i \in Invs, ok \in BOOLEAN :
        \/ CreateNewSession(i, ok)
        \/ CreateRename(i, ok)
        \/ CreateNewWindow(i, ok)
        \/ CreateWindowCommand(i, ok)
        \/ CreateSelect(i, ok)
Use == \E i \in Invs, ok \in BOOLEAN : SwitchToSession(i, ok) \/ LaunchRespawn(i, ok)

NextTmux == Direct \/ Construct \/ Decide \/ Repurpose \/ Create \/ Use

SpecTmux == InitTmux /\ [][NextTmux]_vars

\* ------------------------------------------------------ claims: controller
Done(i) == inv[i].pc = "ok"
Failed(i) == inv[i].pc = "fatal"
\* The session of the target name now, and before any invocation started.
Target(i) == FindSession(srv, inv[i].name)
Target0(i) == FindSession(scen.srv0, inv[i].name)
WindowNames(ws) == {ws[k].name : k \in 1..Len(ws)}
CfgNames == {scen.cfg[k].Name : k \in 1..Len(scen.cfg)}
\* Invocation i has issued command c with success.
Issued(i, c) == \E k \in 1..Len(inv[i].cmds) : inv[i].cmds[k] = [cmd |-> c, ok |-> TRUE]
Injected(i) == Issued(i, "respawn-launch")
\* The windows ws are the claude window and one window per configured
\* window, in any order.
ConfiguredTimes(n) ==
    Cardinality({k \in 1..Len(scen.cfg) : scen.cfg[k].Name = n})
    + (IF n = ClaudeWindow THEN 1 ELSE 0)
ExactlyConfigured(ws) ==
    /\ Len(ws) = Len(scen.cfg) + 1
    /\ \A n \in WindowNames(ws) \cup CfgNames \cup {ClaudeWindow} :
          Cardinality(WindowsNamed(ws, n)) = ConfiguredTimes(n)
\* Every window of ws0 is still in ws, at its place.
NoneRemoved(ws0, ws) ==
    /\ Len(ws0) <= Len(ws)
    /\ \A k \in 1..Len(ws0) : ws[k].name = ws0[k].name

\* C11: when the named session existed before the invocation, then by the
\* time the invocation injects its launch command every configured window is
\* present in the session and no window it had was removed.
C11_HealThenUse ==
    \A i \in Invs :
        (inv[i].path = "existing" /\ Target0(i) # 0 /\ Injected(i)) =>
            /\ CfgNames \subseteq WindowNames(srv[Target0(i)].wins)
            /\ NoneRemoved(scen.srv0[Target0(i)].wins, srv[Target0(i)].wins)

\* C12: for a named session that lacks one configured window, an invocation
\* that is done leaves exactly the claude window and the configured windows;
\* this holds after the first heal and still after a second one, so the
\* second adds no window.
C12_HealIdempotent ==
    \A i \in Invs :
        (inv[i].path = "existing" /\ Target0(i) # 0 /\ Done(i)
           /\ Len(scen.srv0[Target0(i)].wins) = Len(scen.cfg)) =>
            ExactlyConfigured(srv[Target0(i)].wins)

\* The window the operator sees in session h.
Selected(h) == srv[h].wins[srv[h].sel]
ClaudeWindows(h) == WindowsNamed(srv[h].wins, ClaudeWindow)
\* Session h is what an invocation of that kind converges to: its claude
\* window is the selected one and runs the launch command.
Converged(h, kind) ==
    /\ Selected(h).name = ClaudeWindow
    /\ Selected(h).proc.cmd = LaunchCmd(kind)

\* C13: after an invocation that went through the controller and ended
\* without error, the session of the derived name exists, the operator's
\* client is attached to it, its claude window is the selected window and
\* the launch command runs there.
C13_Converged ==
    \A i \in Invs :
        (Done(i) /\ inv[i].path \in {"repurpose", "create", "existing"}) =>
            /\ Target(i) # 0
            /\ attached[i] = Target(i)
            /\ Converged(Target(i), inv[i].kind)

\* RepurposeCurrentSession has returned nil to invocation i.
Repurposed(i) ==
    /\ inv[i].path = "repurpose"
    /\ inv[i].pc \in {"rp_respawn", "rp_select", "ok"}
SessionsNamed(n) == {h \in 1..Len(srv) : srv[h].name = n}

Created(i) ==
    /\ inv[i].path = "create"
    /\ inv[i].pc \in {"switch", "respawn", "ok"}
RECURSIVE NamesOf(_)
NamesOf(ws) == IF ws = << >> THEN << >> ELSE << Head(ws).name >> \o NamesOf(Tail(ws))
CfgNameList ==  [k \in 1..Len(scen.cfg) |-> scen.cfg[k].Name]

\* C15: when CreateProjectSession has returned without error, the windows
\* of the new session are the claude window followed by the configured
\* windows in configuration order, each in the project directory.
C15_CreateOrder ==
    \A i \in Invs :
        Created(i) =>
            /\ NamesOf(srv[inv[i].sess].wins) = << ClaudeWindow >> \o CfgNameList
            /\ \A k \in 1..Len(srv[inv[i].sess].wins) :
                  srv[inv[i].sess].wins[k].dir = inv[i].proj

\* Invocation i has asked whether its current session is disposable.
AskedDisposable(i) == inv[i].path \in {"repurpose", "create"}

\* C16: the answer of IsDisposableSession is true exactly for a session whose
\* name is made of digits only and that has at most 2 windows: true for "7"
\* with 2 windows, false for "7" with 3 windows, false for "dev" whatever
\* its windows.
C16_DisposablePredicate ==
    \A i \in Invs :
        AskedDisposable(i) =>
            LET n == inv[i].seen.name
                w == inv[i].seen.n
            IN /\ inv[i].disp <=> ((\A k \in 1..Len(n) : n[k] \in Digits) /\ w <= 2)
               /\ (n = Str7 /\ w = 2) => inv[i].disp
               /\ (n = Str7 /\ w = 3) => ~inv[i].disp
               /\ n = StrDev => ~inv[i].disp

\* C16 witness: session 7 with 2 windows was found disposable.
C16_Witness ==
    \E i \in Invs :
        /\ AskedDisposable(i)
        /\ inv[i].seen = [name |-> Str7, n |-> 2]
        /\ inv[i].disp
        /\ inv[i].path = "repurpose"

\* The final component of a path that has one.
FinalComponent(p) == SubSeq(p, LastSlash(p) + 1, Len(p))

\* C17: the session name an invocation derives is the fallback name claude
\* for the project paths "", "." and "/", and the final path component
\* otherwise (widgets for /home/u/widgets).
C17_SessionName ==
    \A i \in Invs :
        inv[i].name # EmptyStr =>
            /\ inv[i].proj \in {EmptyStr, StrDot, StrRoot} => inv[i].name = StrClaude
            /\ inv[i].proj \notin {EmptyStr, StrDot, StrRoot} =>
                  inv[i].name = FinalComponent(inv[i].proj)
            /\ inv[i].proj = PathWidgets => inv[i].name = StrWidgets

\* C18: a command of the multiplexer that failed is the last command its
\* invocation issued, and that invocation has ended with a fatal error.
C18_FailureAborts ==
    \A i \in Invs :
        \A k \in 1..Len(inv[i].cmds) :
            ~inv[i].cmds[k].ok => (k = Len(inv[i].cmds) /\ Failed(i))

\* Invocation i is on the foreground path: outside the multiplexer, or its
\* controller could not be constructed.
MustFallBack(i) ==
    /\ inv[i].pc \notin {"off", "start"}
    /\ ~scen.inside \/ inv[i].mgr = "err"
\* What C19 says of routing, of the multiplexer and of errors.
FallsBack(i) ==
    /\ MustFallBack(i) => inv[i].pc \in {"direct", "ok"}
    /\ MustFallBack(i) => inv[i].cmds = << >>
    /\ (MustFallBack(i) /\ Done(i)) => (inv[i].path = "direct" /\ fg[i].ran)
    /\ fg[i].ran => MustFallBack(i)

\* C19 as stated: on the foreground path the launch command is run in the
\* project directory, no command of the multiplexer is issued and the
\* invocation ends without error.
C19_Original ==
    \A i \in Invs :
        /\ FallsBack(i)
        /\ fg[i].ran => fg[i].dir = inv[i].proj

\* C19 amended: as C19_Original, but the launch command runs in the project
\* directory only when the record names one and it can be entered, and in
\* the directory the tool was started in otherwise.
C19_ForegroundFallback ==
    \A i \in Invs :
        /\ FallsBack(i)
        /\ fg[i].ran =>
              fg[i].dir = (IF inv[i].proj # EmptyStr /\ scen.dirOK
                           THEN inv[i].proj ELSE StartDir)

\* C19 witness: outside the multiplexer the launch command has run in
\* /home/u/widgets and no command of the multiplexer was issued.
C19_Witness ==
    \E i \in Invs :
        /\ ~scen.inside /\ Done(i)
        /\ fg[i] = [ran |-> TRUE, dir |-> PathWidgets]
        /\ inv[i].cmds = << >>

\* Two invocations for the same project went through the controller and
\* have both ended, and no command failed for a reason outside the race.
Ended(i) == Done(i) \/ Failed(i)
RaceOver ==
    /\ \A i \in Invs : Ended(i) /\ inv[i].mgr = "ok"
    /\ inv[1].proj = inv[2].proj
    /\ faults = 0

C21_OwnProjectOnly ==
    \A i \in Invs :
        \A h \in 1..Len(srv) :
            \A k \in 1..Len(srv[h].wins) :
                (srv[h].wins[k].proc.by = i
                   /\ srv[h].wins[k].proc.cmd = LaunchCmd(inv[i].kind)) =>
                    srv[h].dir = inv[i].proj

\* =========================================================================
\* ParseFile on one transcript that opens and stats, line by line: the loop
\* over scanner.Scan(), json.Unmarshal, processLine, and finalizeSummary.
\* =========================================================================
\* Lines of the transcript: 0..MaxLines.
MaxLines == 3

\* Go strings are byte strings: a character outside ASCII takes several
\* bytes, a lead byte followed by continuation bytes (c3 a9 is e-acute).
ByteLead == "c3"
ByteCont == "a9"
StrLong == [k \in 1..80 |-> "x"]
Str61 == [k \in 1..61 |-> "y"]
StrAccents == [k \in 1..62 |-> IF k % 2 = 1 THEN ByteLead ELSE ByteCont]
StrOther == <<"/", "v">>
StrDevBranch == <<"d", "e", "v">>

\* json "type" lines are valid JSON whose message.content is an array of
\* blocks; the other fields are what the line carries.
SampleLines ==
    { MkLine("ok", "user", StrProj, EmptyStr, StrHi, EmptyStr, 40),
      MkLine("ok", "user", StrOther, EmptyStr, StrLong, StrMain, 150),
      MkLine("ok", "user", EmptyStr, EmptyStr, EmptyStr, EmptyStr, 30),
      MkLine("ok", "user", EmptyStr, EmptyStr, Str61, EmptyStr, 100),
      MkLine("ok", "user", EmptyStr, EmptyStr, StrAccents, EmptyStr, 100),
      MkLine("type", "user", StrOther, EmptyStr, EmptyStr, StrDevBranch, 90),
      MkLine("type", "assistant", StrProj, EmptyStr, EmptyStr, StrMain, 90),
      MkLine("ok", "assistant", StrOther, EmptyStr, StrFix, StrDevBranch, 50),
      MkLine("ok", "summary", EmptyStr, StrFix, EmptyStr, EmptyStr, 30),
      MkLine("ok", "summary", EmptyStr, StrMain, EmptyStr, EmptyStr, 30),
      MkLine("ok", "system", EmptyStr, EmptyStr, EmptyStr, StrDevBranch, 30),
      MkLine("syntax", "", EmptyStr, EmptyStr, EmptyStr, EmptyStr, 7),
      MkLine("syntax", "", EmptyStr, EmptyStr, EmptyStr, EmptyStr, ScanBufMax) }

SampleFiles == UNION {[1..n -> SampleLines] : n \in 0..MaxLines}

\* sess := Session{ID, FilePath, ModTime}; var firstUserMsg string
InitParse ==
    /\ InitPipeline /\ MuxOff /\ WalkOff /\ SaveOff /\ PickOff /\ LockOff
    /\ \E ls \in SampleFiles : scanner = [lines |-> ls, pos |-> 0]
    /\ pst = [sess |-> [ZeroSession EXCEPT !.ID = TrimSuffix(Base(PathA1), JsonlExt),
                                           !.FilePath = PathA1,
                                           !.ModTime = 1],
              first |-> EmptyStr]
    /\ ppc = "scan"

NextLine == scanner.lines[scanner.pos + 1]
HasLine == scanner.pos < Len(scanner.lines)

\* scanner.Scan() returns false at the end of the file.
LoopEnd ==
    /\ ppc = "scan" /\ ~HasLine
    /\ ppc' = "final"
    /\ UNCHANGED << scanner, pst, nonParseVars >>

\* scanner.Scan() returns false on a line that does not fit the buffer; the
\* error of the scanner is not looked at.
LoopTooLong ==
    /\ ppc = "scan" /\ HasLine
    /\ NextLine.size >= ScanBufMax
    /\ ppc' = "final"
    /\ UNCHANGED << scanner, pst, nonParseVars >>

\* if json.Unmarshal(scanner.Bytes(), &line) != nil { continue }
LoopSkipLine ==
    /\ ppc = "scan" /\ HasLine
    /\ NextLine.size < ScanBufMax
    /\ NextLine.json # "ok"
    /\ scanner' = [scanner EXCEPT !.pos = @ + 1]
    /\ UNCHANGED << pst, ppc, nonParseVars >>

\* sess.processLine(line, &firstUserMsg)
LoopProcessLine ==
    /\ ppc = "scan" /\ HasLine
    /\ NextLine.size < ScanBufMax
    /\ NextLine.json = "ok"
    /\ pst' = processLine(pst, NextLine)
    /\ scanner' = [scanner EXCEPT !.pos = @ + 1]
    /\ UNCHANGED << ppc, nonParseVars >>

\* sess.finalizeSummary(firstUserMsg); return sess, nil
Finalize ==
    /\ ppc = "final"
    /\ pst' = [pst EXCEPT !.sess = finalizeSummary(pst)]
    /\ ppc' = "done"
    /\ UNCHANGED << scanner, nonParseVars >>

NextParse == LoopEnd \/ LoopTooLong \/ LoopSkipLine \/ LoopProcessLine \/ Finalize

SpecParse == InitParse /\ [][NextParse]_vars

\* --------------------------------------------------------- claims: parser
Parsed == ppc = "done"
\* The lines of the file in the words of the specification.
SummaryLines(L) == {i \in 1..Len(L) : L[i].Type = "summary" /\ L[i].Summary # EmptyStr}
MessageLines(L) == {i \in 1..Len(L) : L[i].Type = "user" /\ L[i].Content # EmptyStr}
CwdLines(L) == {i \in 1..Len(L) : L[i].Type = "user" /\ L[i].Cwd # EmptyStr}
BranchLines(L) == {i \in 1..Len(L) : L[i].GitBranch # EmptyStr}
First(I) == CHOOSE i \in I : \A j \in I : i <= j
Last(I) == CHOOSE i \in I : \A j \in I : j <= i
\* A message, or a beginning of it followed by the marker.
MaybeCut(m) == {m} \cup {SubSeq(m, 1, k) \o Ellipsis : k \in 1..Len(m)}

\* C22: the summary of the returned record is the last explicit summary line
\* of the file if the file has one, else the first non-empty user message
\* (whole or cut, with the marker), else the placeholder.
C22_SummaryResolution ==
    Parsed =>
        LET L == scanner.lines
        IN IF SummaryLines(L) # {}
           THEN pst.sess.Summary = L[Last(SummaryLines(L))].Summary
           ELSE IF MessageLines(L) # {}
           THEN pst.sess.Summary \in MaybeCut(L[First(MessageLines(L))].Content)
           ELSE pst.sess.Summary = NoSummary

\* The number of characters of a byte string, and the bytes of its first n
\* characters.
RuneCount(s) == Cardinality({i \in 1..Len(s) : s[i] # ByteCont})
FirstRunes(s, n) ==
    LET starts == {i \in 1..Len(s) : s[i] # ByteCont}
        later == {i \in starts : Cardinality({j \in starts : j < i}) >= n}
    IN IF later = {} THEN s ELSE SubSeq(s, 1, First(later) - 1)

\* C23: when finalizeSummary falls back to the first user message, a message
\* of at most 60 characters becomes the summary as it is, and a longer one
\* becomes its first 57 characters followed by the marker, 60 characters.
C23_Truncation ==
    [][(ppc = "final" /\ ppc' = "done"
          /\ pst.sess.Summary = EmptyStr /\ pst.first # EmptyStr) =>
         LET m == pst.first
         IN /\ RuneCount(m) <= 60 => pst'.sess.Summary = m
            /\ RuneCount(m) > 60 =>
                  /\ pst'.sess.Summary = FirstRunes(m, 57) \o Ellipsis
                  /\ RuneCount(pst'.sess.Summary) = 60]_vars

\* C24: the returned record is the record ParseFile returns for the same
\* file without its lines that are not valid JSON.
C24_MalformedSkipped ==
    Parsed =>
        pst.sess = ParseLines(PathA1, 1,
                              SelectSeq(scanner.lines, LAMBDA l : l.json # "syntax"))

\* C25: the counts of the returned record are the numbers of lines of the
\* file whose type is user and whose type is assistant.
C25_Counts ==
    Parsed =>
        LET L == scanner.lines
        IN /\ pst.sess.UserMsgCount = Cardinality({i \in 1..Len(L) : L[i].Type = "user"})
           /\ pst.sess.AsstMsgCount =
                 Cardinality({i \in 1..Len(L) : L[i].Type = "assistant"})

\* The lines the parse has gone past: all of them once it has returned.
Behind == IF Parsed THEN scanner.lines ELSE SubSeq(scanner.lines, 1, scanner.pos)

\* C26: at every moment of a parse ProjectPath is the working directory of
\* the first user line, among the lines behind, that carries one, and is
\* empty when none does; so it is set once and never changed.
C26_ProjectPathOnce ==
    ppc # "off" =>
        pst.sess.ProjectPath =
            (IF CwdLines(Behind) = {} THEN EmptyStr
             ELSE Behind[First(CwdLines(Behind))].Cwd)

\* C27: at every moment of a parse GitBranch is the branch of the first line
\* of any type, among the lines behind, that carries one, and is empty when
\* none does.
C27_FirstBranch ==
    ppc # "off" =>
        pst.sess.GitBranch =
            (IF BranchLines(Behind) = {} THEN EmptyStr
             ELSE Behind[First(BranchLines(Behind))].GitBranch)

\* =========================================================================
\* findSessionFilesWithInfo on a transcript root with nested directories:
\* filepath.WalkDir visits the entries in lexical order, depth first, and
\* calls the function literal of line 83 on each.
\* =========================================================================
\* The entries under the root, by number: name, kind and parent directory.
MkDirEntry(n, k, p) == [name |-> n, kind |-> k, parent |-> p]
Root == 1
DirEntries ==
    << MkDirEntry(<<"projects">>, "dir", 0),
       MkDirEntry(<<"pA">>, "dir", 1),
       MkDirEntry(<<"s1", JsonlExt>>, "file", 2),
       MkDirEntry(<<AgentPrefix, "s3", JsonlExt>>, "file", 2),
       MkDirEntry(<<"sub", JsonlExt>>, "dir", 2),
       MkDirEntry(<<"s4", JsonlExt>>, "file", 5),
       MkDirEntry(<<"notes", ".txt">>, "file", 1),
       MkDirEntry(<<"s0", JsonlExt>>, "file", 1) >>
EntryIds == 1..Len(DirEntries)
\* os.ReadDir of a directory: its entries sorted by file name.
ReadDir(n) ==
    CASE n = 1 -> <<7, 2, 8>>
      [] n = 2 -> <<4, 3, 5>>
      [] n = 5 -> <<6>>
      [] OTHER -> << >>
RECURSIVE PathOf(_)
PathOf(n) ==
    IF n = Root THEN DirEntries[n].name
    ELSE PathOf(DirEntries[n].parent) \o <<"/">> \o DirEntries[n].name

\* What the file system answers for an entry: stat is whether os.Lstat of
\* the root and d.Info() of a file succeed, read whether os.ReadDir of a
\* directory succeeds, mtime the modification time of a file.
InitWalk ==
    /\ InitPipeline /\ MuxOff /\ ParseOff /\ SaveOff /\ PickOff /\ LockOff
    /\ \E st \in [EntryIds -> BOOLEAN], rd \in [EntryIds -> BOOLEAN], m \in 1..MaxTime :
          /\ \A n \in EntryIds :
                /\ (DirEntries[n].kind = "dir" /\ n # Root) => st[n]
                /\ DirEntries[n].kind = "file" => rd[n]
          /\ ~st[Root] => rd[Root]
          /\ tree = [n \in EntryIds |->
                       [stat |-> st[n], read |-> rd[n],
                        mtime |-> IF n = 3 THEN m ELSE 1 + (n % 2)]]
    /\ wstack = << >>
    /\ wfiles = << >>
    /\ walkpc = "lstat"

\* The function literal on a directory entry that is not a directory.
walkFn(fl, n) ==
    IF ~IsSessionFile(MkPath("", DirEntries[n].name)) THEN fl
    ELSE IF ~tree[n].stat THEN fl
    ELSE Append(fl, [path |-> PathOf(n), modTime |-> tree[n].mtime])

\* WalkDir: os.Lstat(root); on an error the function literal is called with
\* it and returns nil, and so does WalkDir.
WalkRoot ==
    /\ walkpc = "lstat"
    /\ IF tree[Root].stat
       THEN wstack' = << Root >> /\ walkpc' = "walk"
       ELSE wstack' = << >> /\ walkpc' = "done"
    /\ UNCHANGED << tree, wfiles, nonWalkVars >>

\* Mutant of VisitDir: the error of ReadDir is handed back to WalkDir.
VisitDir_ReturnErr ==
    /\ walkpc = "walk" /\ wstack # << >>
    /\ DirEntries[Head(wstack)].kind = "dir"
    /\ IF tree[Head(wstack)].read
       THEN wstack' = ReadDir(Head(wstack)) \o Tail(wstack) /\ walkpc' = walkpc
       ELSE wstack' = << >> /\ walkpc' = "failed"
    /\ UNCHANGED << tree, wfiles, nonWalkVars >>

\* walkDir on a directory: the function literal returns nil for it
\* (d.IsDir()), then os.ReadDir; on an error the function literal is called
\* again with the error and returns nil, and no entry of it is visited.
VisitDir ==
    /\ walkpc = "walk" /\ wstack # << >>
    /\ DirEntries[Head(wstack)].kind = "dir"
    /\ wstack' = (IF tree[Head(wstack)].read THEN ReadDir(Head(wstack)) ELSE << >>)
                 \o Tail(wstack)
    /\ UNCHANGED << tree, wfiles, walkpc, nonWalkVars >>

\* walkDir on any other entry: the function literal.
VisitFile ==
    /\ walkpc = "walk" /\ wstack # << >>
    /\ DirEntries[Head(wstack)].kind = "file"
    /\ wfiles' = walkFn(wfiles, Head(wstack))
    /\ wstack' = Tail(wstack)
    /\ UNCHANGED << tree, walkpc, nonWalkVars >>

\* return files, err
WalkReturn ==
    /\ walkpc = "walk" /\ wstack = << >>
    /\ walkpc' = "done"
    /\ UNCHANGED << tree, wstack, wfiles, nonWalkVars >>

NextWalk == WalkRoot \/ VisitDir \/ VisitFile \/ WalkReturn

SpecWalk == InitWalk /\ [][NextWalk]_vars

\* ------------------------------------------------------ claims: discovery
\* Every directory above entry n can be read, up to a root that exists.
RECURSIVE Reachable(_)
Reachable(n) ==
    IF n = Root THEN tree[Root].stat
    ELSE tree[DirEntries[n].parent].read /\ Reachable(DirEntries[n].parent)
\* The files discovery is to return, in the words of the specification.
Wanted ==
    {n \in EntryIds :
        /\ DirEntries[n].kind = "file"
        /\ DirEntries[n].name[Len(DirEntries[n].name)] = ".jsonl"
        /\ DirEntries[n].name[1] # "agent-"
        /\ Reachable(n)
        /\ tree[n].stat}

\* C28: the walk never ends in an error, and when it has returned, files
\* holds once each, with its modification time, exactly the files at any
\* depth whose name ends in .jsonl and does not start with agent-, that can
\* be reached through readable directories and can be statted.
C28_Discovery ==
    /\ walkpc # "failed"
    /\ walkpc = "done" =>
          /\ Range(wfiles) = {[path |-> PathOf(n), modTime |-> tree[n].mtime] : n \in Wanted}
          /\ Len(wfiles) = Cardinality(Wanted)

\* C28 witness: a directory could not be read and a file could not be
\* statted, and the walk went on to return the file that follows them.
C28_Witness ==
    /\ walkpc = "done"
    /\ tree[Root].stat /\ tree[2].read /\ ~tree[5].read /\ ~tree[3].stat
    /\ wfiles = << [path |-> PathOf(8), modTime |-> tree[8].mtime] >>

\* =========================================================================
\* Two process instances of loadAllSessions at the same time: each loads the
\* cache file, scans and saves.  os.Create truncates the file and gives the
\* instance a file offset of its own; gob's Encode hands the writer one
\* message per type descriptor and then one message with the whole map, a
\* write each, at the offset of the instance.
\* =========================================================================
Procs == 1..2
\* Messages that describe the types of the map, sent before its value.
NumTypeMsgs == 2

\* What a position of the file holds: a type descriptor, the head of a value
\* (the number of entries that follow in the message), an entry, or the
\* zeros of a hole.
MkCell(k, n, p, e) == [k |-> k, n |-> n, path |-> p, entry |-> e]
ZeroCell == MkCell("zero", 0, ZeroPath, MkEntry(0, ZeroSession))
TypeCell(j) == MkCell("type", j, ZeroPath, MkEntry(0, ZeroSession))

\* The value message of Encode(c.entries).
RECURSIVE EntryCells(_, _)
EntryCells(es, i) ==
    IF i > Len(WalkOrder) THEN << >>
    ELSE (IF WalkOrder[i] \in DOMAIN es
          THEN << MkCell("entry", 0, WalkOrder[i], es[WalkOrder[i]]) >> ELSE << >>)
         \o EntryCells(es, i + 1)
gobEncode(es) ==
    << MkCell("value", Cardinality(DOMAIN es), ZeroPath, MkEntry(0, ZeroSession)) >>
    \o EntryCells(es, 1)

\* Decode(&c.entries) on the file, its error dropped by load: the type
\* descriptors, then one value message, read whole before it is decoded;
\* what follows the message is not read.
gobDecode(cells) ==
    LET h == NumTypeMsgs + 1
    IN IF Len(cells) < h THEN EmptyMap
       ELSE IF \E j \in 1..NumTypeMsgs : cells[j] # TypeCell(j) THEN EmptyMap
       ELSE IF cells[h].k # "value" \/ Len(cells) < h + cells[h].n THEN EmptyMap
       ELSE LET ok == {j \in 1..cells[h].n :
                          \A l \in 1..j : cells[h + l].k = "entry"}
            IN [p \in {cells[h + j].path : j \in ok} |->
                  cells[h + (CHOOSE j \in ok : cells[h + j].path = p)].entry]

\* Mutant of FileWrite: the data goes to the end of the file.
FileWrite_Append(cells, off, data) == cells \o data

\* write(2) of data at offset off: the file grows as needed, a gap reads as
\* zeros.
FileWrite(cells, off, data) ==
    [j \in 1..(IF Len(cells) > off + Len(data) THEN Len(cells) ELSE off + Len(data)) |->
        IF j > off /\ j <= off + Len(data) THEN data[j - off]
        ELSE IF j <= Len(cells) THEN cells[j] ELSE ZeroCell]

\* The transcript root as an instance finds it when it scans.
ViewOf(S, m) ==
    [p \in Paths |->
        IF p \in S
        THEN [exists |-> TRUE, readable |-> TRUE,
              mtime |-> IF p = PathA1 THEN m ELSE InitialTime(p),
              content |-> ContentUser]
        ELSE NoFile]
Views == {ViewOf(S, m) : S \in SUBSET {PathA1, PathB1}, m \in 1..MaxTime}

\* ScanAllCached with its workers run one after the other: per discovered
\* file a hit keeps the entry, a miss parses and sets it; then Prune.
RECURSIVE ScanFiles(_, _, _, _)
ScanFiles(es, f, fl, i) ==
    IF i > Len(fl) THEN es
    ELSE IF Get(es, fl[i].path, fl[i].modTime).ok THEN ScanFiles(es, f, fl, i + 1)
    ELSE LET r == ParseFile(f, fl[i].path)
         IN ScanFiles(IF r.err THEN es ELSE Set(es, fl[i].path, fl[i].modTime, r.sess),
                      f, fl, i + 1)
ScanAllCached(es, f) ==
    LET fl == findSessionFilesWithInfo(f)
    IN Prune(ScanFiles(es, f, fl, 1), {fl[i].path : i \in 1..Len(fl)})

InitSave ==
    /\ InitPipeline /\ MuxOff /\ ParseOff /\ WalkOff /\ PickOff /\ LockOff
    /\ inst = [i \in Procs |-> [pc |-> "new", entries |-> EmptyMap, off |-> 0]]
    /\ cfile = << >>
    /\ lastWriter = 0

\* cache.New(): load reads the file as it is at this moment.
InstNew(i) ==
    /\ inst[i].pc = "new"
    /\ inst' = [inst EXCEPT ![i].entries = gobDecode(cfile), ![i].pc = "scan"]
    /\ UNCHANGED << cfile, lastWriter, nonSaveVars >>

\* scanner.ScanAllCached(c) on the transcripts of this moment.
InstScan(i, f) ==
    /\ inst[i].pc = "scan"
    /\ inst' = [inst EXCEPT ![i].entries = ScanAllCached(@, f), ![i].pc = "create"]
    /\ UNCHANGED << cfile, lastWriter, nonSaveVars >>

\* Save: os.Create(c.path) truncates the file.
InstCreate(i) ==
    /\ inst[i].pc = "create"
    /\ cfile' = << >>
    /\ inst' = [inst EXCEPT ![i].off = 0, ![i].pc = "types"]
    /\ UNCHANGED << lastWriter, nonSaveVars >>

\* Encode: the next type descriptor is written.
InstWriteType(i) ==
    /\ inst[i].pc = "types"
    /\ cfile' = FileWrite(cfile, inst[i].off, << TypeCell(inst[i].off + 1) >>)
    /\ inst' = [inst EXCEPT ![i].off = @ + 1,
                            ![i].pc = IF inst[i].off + 1 = NumTypeMsgs
                                      THEN "value" ELSE "types"]
    /\ UNCHANGED << lastWriter, nonSaveVars >>

\* Encode: the value is written; Save returns and the instance goes on.
InstWriteValue(i) ==
    /\ inst[i].pc = "value"
    /\ cfile' = FileWrite(cfile, inst[i].off, gobEncode(inst[i].entries))
    /\ inst' = [inst EXCEPT ![i].off = @ + Len(gobEncode(inst[i].entries)),
                            ![i].pc = "done"]
    /\ lastWriter' = i
    /\ UNCHANGED nonSaveVars

NextSave ==
    \E i \in Procs :
        \/ InstNew(i)
        \/ \E f \in Views : InstScan(i, f)
        \/ InstCreate(i)
        \/ InstWriteType(i)
        \/ InstWriteValue(i)

SpecSave == InitSave /\ [][NextSave]_vars

\* --------------------------------------------------- claims: concurrent save
BothSaved == \A i \in Procs : inst[i].pc = "done"

\* C29: when both instances have saved, a load of the cache file gives the
\* whole map of the instance that wrote last: every entry of it and no
\* entry of the other map that it does not hold.
C29_LastWriterWins ==
    BothSaved => gobDecode(cfile) = inst[lastWriter].entries

\* C29 witness: the two instances saved different maps with their writes
\* interleaved, the longer value first: its end still follows the value of
\* the last writer in the file, and a load gives the map of the last writer.
C29_Witness ==
    /\ BothSaved /\ lastWriter = 2
    /\ DOMAIN inst[1].entries = {PathA1, PathB1}
    /\ DOMAIN inst[2].entries = {PathA1}
    /\ Len(cfile) = NumTypeMsgs + 3
    /\ gobDecode(cfile) = inst[2].entries

\* =========================================================================
\* The picker: pickerModel and its Update on key messages.  The model is a
\* value; selectedProject points at an element of a slice that is never
\* changed in place, so it is the value of that element when it was taken.
\* =========================================================================
\* Characters the filter holds at most (the text input is limited as well).
MaxFilter == 1

StrNoProject == <<"(", "n", "o", " ", "p", "r", "o", "j", "e", "c", "t", ")">>
Space == <<" ">>

\* Sessions handed to the picker, newest first; SelectSession refuses an
\* empty list before the model is built.
MkPickSession(path, proj, summ, mtime, u, a) ==
    [ZeroSession EXCEPT !.ID = TrimSuffix(Base(path), JsonlExt), !.FilePath = path,
                        !.ProjectPath = proj, !.Summary = summ, !.ModTime = mtime,
                        !.UserMsgCount = u, !.AsstMsgCount = a]
SessA == MkPickSession(PathA1, StrProj, StrFix, 3, 1, 1)
SessB == MkPickSession(PathB1, StrProj, StrHi, 2, 0, 0)
StrNo == <<"N", "o">>
SessC == MkPickSession(PathB2, StrOther, StrNo, 1, 1, 0)
SessionLists == { <<SessA, SessB, SessC>>, <<SessA, SessC>>, <<SessB, SessC>>,
                  <<SessB>> }

\* The keys: the ones Update names, and keys that reach the text input.  The
\* operator types "y" and "n" into the filter, and answers the confirmation
\* in either case.
RuneKeys == {"y", "n"}
UpperKeys == {"Y", "N"}
Keys == {"ctrl+c", "esc", "enter", "tab", "ctrl+n", "ctrl+d", "ctrl+a", "up",
         "ctrl+p", "down", "pgup", "pgdown", "home", "ctrl+home", "end",
         "ctrl+end", "backspace"} \cup RuneKeys \cup UpperKeys

\* strings.ToLower and strings.Contains
ToLower(s) ==
    [k \in 1..Len(s) |-> IF s[k] = "Y" THEN "y" ELSE IF s[k] = "N" THEN "n" ELSE s[k]]
Contains(s, sub) ==
    \E k \in 0..(Len(s) - Len(sub)) : SubSeq(s, k + 1, k + Len(sub)) = sub
Max(a, b) == IF a > b THEN a ELSE b
Min(a, b) == IF a < b THEN a ELSE b

\* sort.Slice by ModTime, newest first (equal times in any order)
RECURSIVE SortNewest(_)
SortNewest(S) ==
    IF S = {} THEN << >>
    ELSE LET x == CHOOSE x \in S : \A y \in S : y.ModTime <= x.ModTime
         IN << x >> \o SortNewest(S \ {x})

\* ProjectGroup
MkGroup(path, ss) ==
    [ProjectPath |-> path,
     ProjectName |-> IF filepathBase(path) \in {EmptyStr, StrDot}
                     THEN StrNoProject ELSE filepathBase(path),
     Sessions |-> ss]
NilGroup == [nil |-> TRUE, g |-> MkGroup(EmptyStr, << >>)]
Ptr(g) == [nil |-> FALSE, g |-> g]

groupSessionsByProject(ss) ==
    LET pathOf(s) == IF s.ProjectPath = EmptyStr THEN StrNoProject ELSE s.ProjectPath
        paths == {pathOf(ss[k]) : k \in 1..Len(ss)}
        group(p) == MkGroup(p, SortNewest({ss[k] : k \in {j \in 1..Len(ss) : pathOf(ss[j]) = p}}))
        RECURSIVE order(_)
        order(P) ==
            IF P = {} THEN << >>
            ELSE LET p == CHOOSE p \in P :
                              \A q \in P : group(q).Sessions[1].ModTime
                                              <= group(p).Sessions[1].ModTime
                 IN << group(p) >> \o order(P \ {p})
    IN order(paths)

rebuildProjects(m) ==
    [m EXCEPT !.projects =
        groupSessionsByProject(
            SelectSeq(m.allSessions,
                      LAMBDA s : ~(~m.showEmpty /\ s.UserMsgCount = 0 /\ s.AsstMsgCount = 0)))]

RECURSIVE SessionsText(_)
SessionsText(ss) ==
    IF ss = << >> THEN << >>
    ELSE Space \o ToLower(Head(ss).Summary \o Space \o Head(ss).GitBranch)
         \o SessionsText(Tail(ss))

applyProjectFilter(m) ==
    LET query == ToLower(m.filter)
        keep(p) == query = EmptyStr
                   \/ Contains(ToLower(p.ProjectPath \o Space \o p.ProjectName)
                               \o SessionsText(p.Sessions), query)
        fp == SelectSeq(m.projects, keep)
    IN [m EXCEPT !.filteredProjects = fp,
                 !.projectCursor = IF @ >= Len(fp) THEN Max(0, Len(fp) - 1) ELSE @]

applySessionFilter(m) ==
    IF m.selectedProject.nil THEN m
    ELSE LET query == ToLower(m.filter)
             keep(s) == query = EmptyStr
                        \/ Contains(ToLower(s.Summary \o Space \o s.GitBranch), query)
             fs0 == SelectSeq(m.selectedProject.g.Sessions, keep)
         IN [m EXCEPT !.filteredSessions = fs0,
                      !.sessionCursor = IF @ >= Len(fs0) THEN Max(0, Len(fs0) - 1) ELSE @]

\* Result of the picker.
NoPickResult == [Action |-> "none", Session |-> ZeroSession, ProjectPath |-> EmptyStr]

newPickerModel(ss, showEmpty) ==
    applyProjectFilter(rebuildProjects(
        [allSessions |-> ss, projects |-> << >>, mode |-> "projects",
         projectCursor |-> 0, sessionCursor |-> 0, selectedProject |-> NilGroup,
         filter |-> EmptyStr, showEmpty |-> showEmpty,
         filteredProjects |-> << >>, filteredSessions |-> << >>,
         result |-> NoPickResult, confirmDelete |-> FALSE, quitting |-> FALSE,
         crashed |-> FALSE]))

\* An index expression q[c] of Go: out of range is a run-time panic.
InRange(q, c) == 0 <= c /\ c < Len(q)
Panic(m) == [m EXCEPT !.crashed = TRUE]
\* Every handler returns the new model and the files it removed.
Ret(m) == [m |-> m, rm |-> << >>]

\* The loop that points selectedProject at the first element of groups
\* with its path; without a match it stays what it was.
Repoint(m, groups) ==
    LET I == {k \in 1..Len(groups) : groups[k].ProjectPath = m.selectedProject.g.ProjectPath}
    IN IF I = {} THEN m
       ELSE [m EXCEPT !.selectedProject = Ptr(groups[CHOOSE k \in I : \A j \in I : k <= j])]

\* case "y", "Y" of the confirmation
caseYes_Enter(k) == k \in {"y", "Y", "enter"}
caseYes(k) == k \in {"y", "Y"}
caseNo(k) == k \in {"n", "N", "esc"}

deleteSelected(m) ==
    IF ~InRange(m.filteredSessions, m.sessionCursor) THEN [m |-> Panic(m), rm |-> << >>]
    ELSE LET sess == m.filteredSessions[m.sessionCursor + 1]
             I == {k \in 1..Len(m.allSessions) : m.allSessions[k].FilePath = sess.FilePath}
             first == IF I = {} THEN 0 ELSE CHOOSE k \in I : \A j \in I : k <= j
             m1 == [m EXCEPT !.allSessions =
                        IF first = 0 THEN @
                        ELSE SubSeq(@, 1, first - 1) \o SubSeq(@, first + 1, Len(@))]
             m2 == Repoint(rebuildProjects(m1), m1.filteredProjects)
             m3 == IF m2.selectedProject.nil \/ Len(m2.selectedProject.g.Sessions) = 0
                   THEN applyProjectFilter(
                            [m2 EXCEPT !.mode = "projects", !.selectedProject = NilGroup])
                   ELSE applySessionFilter(m2)
         IN [m |-> m3, rm |-> << sess.FilePath >>]

\* Update while m.confirmDelete
updateConfirm(m, k) ==
    IF caseYes(k)
    THEN LET r == IF m.mode = "sessions" /\ Len(m.filteredSessions) > 0
                  THEN deleteSelected(m) ELSE Ret(m)
         IN [r EXCEPT !.m.confirmDelete = FALSE]
    ELSE IF caseNo(k) THEN Ret([m EXCEPT !.confirmDelete = FALSE])
    ELSE Ret(m)

\* filter.Update: a rune is appended, backspace removes the last one.
filterUpdate(f, k) ==
    IF k \in RuneKeys \cup UpperKeys THEN Append(f, k)
    ELSE IF k = "backspace" /\ Len(f) > 0 THEN SubSeq(f, 1, Len(f) - 1)
    ELSE f

\* expandPath with projectsDir configured: filepath.Join(projectsDir, input)
ProjectsDir == <<"/", "p">>
expandPath(input) == ProjectsDir \o << Slash >> \o input

\* the page of pgup and pgdown
PageSize == 10

\* Update on a key while no confirmation is open
updateKey(m, k) ==
    CASE k = "ctrl+c" -> [m EXCEPT !.quitting = TRUE]
      [] k = "esc" ->
            IF m.mode = "newproject"
            THEN [m EXCEPT !.mode = "projects", !.filter = EmptyStr]
            ELSE IF m.mode = "sessions"
            THEN applyProjectFilter([m EXCEPT !.mode = "projects",
                                              !.selectedProject = NilGroup,
                                              !.filter = EmptyStr])
            ELSE [m EXCEPT !.quitting = TRUE]
      [] k = "enter" ->
            IF m.mode = "newproject"
            THEN IF m.filter # EmptyStr
                 THEN [m EXCEPT !.result = [NoPickResult EXCEPT !.Action = "newproject",
                                                                !.ProjectPath = expandPath(m.filter)],
                                !.quitting = TRUE]
                 ELSE m
            ELSE IF m.mode = "projects" /\ Len(m.filteredProjects) > 0
            THEN IF ~InRange(m.filteredProjects, m.projectCursor) THEN Panic(m)
                 ELSE LET p == m.filteredProjects[m.projectCursor + 1]
                      IN IF Len(p.Sessions) > 0  \* &p.Sessions[0]
                         THEN [m EXCEPT !.result = [NoPickResult EXCEPT
                                                       !.Action = "resume",
                                                       !.Session = p.Sessions[1]],
                                        !.quitting = TRUE]
                         ELSE Panic(m)
            ELSE IF m.mode = "sessions" /\ Len(m.filteredSessions) > 0
            THEN IF ~InRange(m.filteredSessions, m.sessionCursor) THEN Panic(m)
                 ELSE [m EXCEPT !.result = [NoPickResult EXCEPT
                                               !.Action = "resume",
                                               !.Session = m.filteredSessions[m.sessionCursor + 1]],
                                !.quitting = TRUE]
            ELSE m
      [] k = "tab" ->
            IF m.mode = "projects" /\ Len(m.filteredProjects) > 0
            THEN IF ~InRange(m.filteredProjects, m.projectCursor) THEN Panic(m)
                 ELSE LET p == m.filteredProjects[m.projectCursor + 1]
                      IN [m EXCEPT !.selectedProject = Ptr(p),
                                   !.filteredSessions = p.Sessions,
                                   !.sessionCursor = 0,
                                   !.mode = "sessions",
                                   !.filter = EmptyStr]
            ELSE m
      [] k = "ctrl+n" -> [m EXCEPT !.mode = "newproject", !.filter = EmptyStr]
      [] k = "ctrl+d" ->
            IF m.mode = "sessions" /\ Len(m.filteredSessions) > 0
            THEN [m EXCEPT !.confirmDelete = TRUE] ELSE m
      [] k = "ctrl+a" ->
            LET m1 == rebuildProjects([m EXCEPT !.showEmpty = ~@])
            IN IF m1.mode = "projects" THEN applyProjectFilter(m1)
               ELSE IF m1.mode = "sessions"
               THEN applySessionFilter(Repoint(m1, m1.projects))
               ELSE m1
      [] k \in {"up", "ctrl+p"} ->
            IF m.mode = "projects" /\ m.projectCursor > 0
            THEN [m EXCEPT !.projectCursor = @ - 1]
            ELSE IF m.mode = "sessions" /\ m.sessionCursor > 0
            THEN [m EXCEPT !.sessionCursor = @ - 1]
            ELSE m
      [] k = "down" ->
            IF m.mode = "projects" /\ m.projectCursor < Len(m.filteredProjects) - 1
            THEN [m EXCEPT !.projectCursor = @ + 1]
            ELSE IF m.mode = "sessions" /\ m.sessionCursor < Len(m.filteredSessions) - 1
            THEN [m EXCEPT !.sessionCursor = @ + 1]
            ELSE m
      [] k = "pgup" ->
            IF m.mode = "projects" THEN [m EXCEPT !.projectCursor = Max(0, @ - PageSize)]
            ELSE IF m.mode = "sessions" THEN [m EXCEPT !.sessionCursor = Max(0, @ - PageSize)]
            ELSE m
      [] k = "pgdown" ->
            IF m.mode = "projects"
            THEN [m EXCEPT !.projectCursor = Min(Len(m.filteredProjects) - 1, @ + PageSize)]
            ELSE IF m.mode = "sessions"
            THEN [m EXCEPT !.sessionCursor = Min(Len(m.filteredSessions) - 1, @ + PageSize)]
            ELSE m
      [] k \in {"home", "ctrl+home"} ->
            IF m.mode = "projects" THEN [m EXCEPT !.projectCursor = 0]
            ELSE IF m.mode = "sessions" THEN [m EXCEPT !.sessionCursor = 0]
            ELSE m
      [] k \in {"end", "ctrl+end"} ->
            IF m.mode = "projects"
            THEN [m EXCEPT !.projectCursor = Max(0, Len(m.filteredProjects) - 1)]
            ELSE IF m.mode = "sessions"
            THEN [m EXCEPT !.sessionCursor = Max(0, Len(m.filteredSessions) - 1)]
            ELSE m
      [] OTHER ->
            LET m1 == [m EXCEPT !.filter = filterUpdate(@, k)]
            IN IF m1.mode = "projects" THEN applyProjectFilter(m1)
               ELSE IF m1.mode = "sessions" THEN applySessionFilter(m1)
               ELSE m1

InitPick ==
    /\ InitPipeline /\ MuxOff /\ ParseOff /\ WalkOff /\ SaveOff /\ LockOff
    /\ \E ss \in SessionLists : \E se \in BOOLEAN :
          /\ picker = newPickerModel(ss, se)
          /\ removed = << >>
          /\ disk = {ss[k].FilePath : k \in 1..Len(ss)}

\* One key message delivered to Update; after tea.Quit or a panic there is
\* no further message.
Update(k) ==
    /\ ~picker.quitting /\ ~picker.crashed
    /\ (k \in RuneKeys /\ ~picker.confirmDelete) => Len(picker.filter) < MaxFilter
    /\ k \in UpperKeys => picker.confirmDelete
    /\ LET r == IF picker.confirmDelete THEN updateConfirm(picker, k)
                ELSE Ret(updateKey(picker, k))
       IN /\ picker' = r.m
          /\ removed' = r.rm
          /\ disk' = disk \ Range(r.rm)
    /\ UNCHANGED nonPickVars

NextPick == \E k \in Keys : Update(k)

SpecPick == InitPick /\ [][NextPick]_vars

\* C30: a session file is deleted only on "y" or "Y" received while the
\* confirmation that ctrl+d opened is showing; while it is showing, any other
\* key deletes nothing and leaves both cursors and the filter as they were,
\* and "n", "N" or esc closes it without deleting; only ctrl+d opens it.
C30_DeleteNeedsConfirm ==
    [][ LET deleted == removed' # << >> \/ disk' # disk
        IN /\ deleted =>
                 /\ picker.confirmDelete
                 /\ \A k \in Keys : Update(k) => k \in {"y", "Y"}
           /\ picker.confirmDelete =>
                 \A k \in Keys : Update(k) =>
                     /\ k \notin {"y", "Y"} =>
                           /\ ~deleted
                           /\ picker'.projectCursor = picker.projectCursor
                           /\ picker'.sessionCursor = picker.sessionCursor
                           /\ picker'.filter = picker.filter
                     /\ k \in {"n", "N", "esc"} => ~picker'.confirmDelete
           /\ (~picker.confirmDelete /\ picker'.confirmDelete) =>
                 \A k \in Keys : Update(k) => k = "ctrl+d"
      ]_vars

\* C30 witness: the confirmation was answered with "y" and the file of the
\* session under the cursor is gone from the disk.
C30_Witness ==
    /\ removed = << PathB1 >>
    /\ PathB1 \notin disk
    /\ PathA1 \in disk
    /\ ~picker.confirmDelete
    /\ picker.mode = "sessions"

\* ----------------------------------------------------- claims: picker lists
IsEmptySession(s) == s.UserMsgCount = 0 /\ s.AsstMsgCount = 0
\* What the picker displays: the groups of the projects view, or the list of
\* the expanded project.
ShownSessions ==
    IF picker.mode = "projects"
    THEN UNION {Range(picker.filteredProjects[g].Sessions) :
                    g \in 1..Len(picker.filteredProjects)}
    ELSE IF picker.mode = "sessions" THEN Range(picker.filteredSessions)
    ELSE {}

\* C31: whenever showEmpty is false, no session with zero user and zero
\* assistant messages is in the projects view or in the displayed session
\* list, whatever keys came before.
C31_EmptyHidden ==
    (picker.mode \in {"projects", "sessions"} /\ ~picker.showEmpty) =>
        \A s \in ShownSessions : ~IsEmptySession(s)

\* The state right after a confirmed delete, and the file it removed.
JustDeleted == removed # << >>
HasFile(ss, f) == \E k \in 1..Len(ss) : ss[k].FilePath = f
GoneFromAll == ~HasFile(picker.allSessions, removed[1])
GoneFromGroups ==
    \A g \in 1..Len(picker.projects) : ~HasFile(picker.projects[g].Sessions, removed[1])
GoneFromList ==
    picker.mode = "sessions" => ~HasFile(picker.filteredSessions, removed[1])
\* The expanded project has no session left to list.
ProjectExhausted ==
    \A g \in 1..Len(picker.projects) :
        picker.projects[g].ProjectPath # picker.selectedProject.g.ProjectPath

\* C39: after a confirmed delete the deleted session is absent from
\* allSessions, from the rebuilt project groups and from the displayed
\* session list, and when it was the last session of its project the picker
\* is back in the projects view.
C39_DeletedGone ==
    JustDeleted =>
        /\ GoneFromAll
        /\ GoneFromGroups
        /\ GoneFromList
        /\ (picker.mode = "sessions" => ~ProjectExhausted)

\* The index expression in the preview of renderProjectsMode and
\* renderSessionsMode: list[cursor] under len(list) > 0 && cursor < len(list).
\* The loop over the visible lines starts at 0 or above and stays below the
\* length.
renderIndexOK(list, cursor) ==
    (Len(list) > 0 /\ cursor < Len(list)) => InRange(list, cursor)
\* View of the model: no index out of range.
ViewOK(m) ==
    m.quitting \/
        CASE m.mode = "projects" -> renderIndexOK(m.filteredProjects, m.projectCursor)
          [] m.mode = "sessions" -> renderIndexOK(m.filteredSessions, m.sessionCursor)
          [] OTHER -> TRUE

CursorOK(list, cursor) ==
    IF Len(list) = 0 THEN cursor = 0 ELSE InRange(list, cursor)

\* C38: the cursor of the list on display is a valid index of it, and 0 when
\* it is empty, so neither enter nor the rendering indexes out of range.
C38_CursorsValid ==
    /\ picker.mode = "projects" => CursorOK(picker.filteredProjects, picker.projectCursor)
    /\ picker.mode = "sessions" => CursorOK(picker.filteredSessions, picker.sessionCursor)
    /\ ~picker.crashed
    /\ ViewOK(picker)

\* ------------------------------------------------- claims: scan termination
\* One step of worker i, of the main goroutine and of the closer: the Go
\* scheduler runs every goroutine that can run.
WorkerStep(i) ==
    (WorkerParse(i) \/ WorkerSetLock(i) \/ WorkerSetWrite(i) \/ WorkerSend(i)
        \/ WorkerDone(i)) /\ UNCHANGED nonPipeVars
ScanStep ==
    (ScanWalk \/ GetLock \/ GetRead \/ GoCloser \/ CollectRecv \/ CollectEnd)
        /\ UNCHANGED nonPipeVars
SpecScan ==
    /\ Init
    /\ [][Next]_vars
    /\ WF_vars(ScanStep)
    /\ \A i \in Workers : WF_vars(WorkerStep(i))
    /\ WF_vars(CloserClose /\ UNCHANGED nonPipeVars)

\* A goroutine is at a send on the results channel.
MainAtSend == pc = "get_cs" /\ Get(entries, files[idx].path, files[idx].modTime).ok
WorkerAtSend(i) == wpc[i] = "send"
\* No send blocks, and the buffer never holds more than len(files) results.
SendsNeverBlock ==
    /\ Len(results) <= Len(files)
    /\ (MainAtSend \/ \E i \in Workers : WorkerAtSend(i)) =>
          Len(results) < ChanCap(files)
\* The channel is closed by the closer, once, when no worker is unfinished;
\* a closed channel takes no further send.
CloseStep ==
    /\ (~closed /\ closed') =>
          /\ closer = "wait" /\ closer' = "done"
          /\ \A i \in Workers : wpc[i] \in {"none", "end"}
    /\ (closer # "wait" /\ closer' = "wait") => closer = "none"
    /\ (closed /\ pc' # "idle") => closed' /\ Len(results') <= Len(results)

\* C32: a scan always terminates: no send on the results channel blocks (the
\* buffer holds at most len(files) results), the channel is closed once and
\* only after every worker has finished, nothing is sent after the close, and
\* a scan that has started returns.
C32_ScanTerminates ==
    /\ [](SendsNeverBlock /\ ~panicked)
    /\ [][CloseStep]_vars
    /\ (pc = "walk") ~> ParseReturned

\* C32 witness: every result of a scan of two files or more is in the
\* buffer, a cache hit and a worker's record among them, and the channel is
\* closed before the collector has taken any.
C32_Witness ==
    /\ Len(files) >= 2
    /\ Len(results) = Len(files)
    /\ closed
    /\ \E i, j \in FileIdx : hit[i].ok /\ wpc[j] = "end"

\* =========================================================================
\* The Cache under concurrent callers: Get, Set, Prune and Save called from
\* goroutines of their own on one Cache.  (In loadAllSessions Save runs after
\* the scan, alone; what its lock is for shows only with other callers.)
\* =========================================================================
Callers == 1..3
CallOps == {"Get", "Set", "Prune", "Save"}
Rec(p, m) == [ZeroSession EXCEPT !.FilePath = p, !.ModTime = m]
LoadedEntries == [p \in {PathA1, PathB1} |-> MkEntry(1, Rec(p, 1))]

\* sync.RWMutex as the sync package specifies it: r goroutines hold it for
\* reading; a goroutine that has called Lock is announced (ann), and from then
\* on RLock waits; it holds the mutex (w) once the readers have left.  The
\* mutex of the scan above leaves the announcement out, which allows more
\* interleavings of Get and Set, not fewer.
RWFree == [r |-> 0, ann |-> FALSE, w |-> FALSE]
RWCanRLock(m) == ~m.ann
RWCanAnnounce(m) == ~m.ann
\* Mutant of RWCanLock: the writer does not wait for the readers.
RWCanLock_IgnoreReaders(m) == TRUE
RWCanLock(m) == m.r = 0

InitLock ==
    /\ InitPipeline /\ MuxOff /\ ParseOff /\ WalkOff /\ SaveOff /\ PickOff
    /\ cache = [entries |-> LoadedEntries, mu |-> RWFree]
    /\ \E ops \in [Callers -> CallOps] :
          clients = [c \in Callers |->
                        [op |-> ops[c], pc |-> "start", snap |-> EmptyMap,
                         buf |-> EmptyMap, res |-> NoResult]]
    /\ cpath = [kind |-> "none", entries |-> EmptyMap]

\* c.mu.RLock() of Get and of Save
CallRLock(c) ==
    /\ clients[c].op \in {"Get", "Save"} /\ clients[c].pc = "start"
    /\ RWCanRLock(cache.mu)
    /\ cache' = [cache EXCEPT !.mu.r = @ + 1]
    /\ clients' = [clients EXCEPT ![c].pc = "rlocked", ![c].snap = cache.entries]
    /\ UNCHANGED cpath

\* Get: the lookup and the deferred RUnlock
GetReturn(c, p) ==
    /\ clients[c].op = "Get" /\ clients[c].pc = "rlocked"
    /\ clients' = [clients EXCEPT ![c].pc = "done", ![c].res = Get(cache.entries, p, 1)]
    /\ cache' = [cache EXCEPT !.mu.r = @ - 1]
    /\ UNCHANGED cpath

\* c.mu.Lock() of Set and of Prune: the call, after which readers wait
CallLock(c) ==
    /\ clients[c].op \in {"Set", "Prune"} /\ clients[c].pc = "start"
    /\ RWCanAnnounce(cache.mu)
    /\ cache' = [cache EXCEPT !.mu.ann = TRUE]
    /\ clients' = [clients EXCEPT ![c].pc = "waiting"]
    /\ UNCHANGED cpath

\* c.mu.Lock() returns
CallLocked(c) ==
    /\ clients[c].pc = "waiting"
    /\ RWCanLock(cache.mu)
    /\ cache' = [cache EXCEPT !.mu.w = TRUE]
    /\ clients' = [clients EXCEPT ![c].pc = "locked"]
    /\ UNCHANGED cpath

\* Set: the assignment and the deferred Unlock
SetReturn(c, p) ==
    /\ clients[c].op = "Set" /\ clients[c].pc = "locked"
    /\ cache' = [cache EXCEPT !.entries = Set(@, p, 2, Rec(p, 2)), !.mu = RWFree]
    /\ clients' = [clients EXCEPT ![c].pc = "done"]
    /\ UNCHANGED cpath

\* Prune: the deletions and the deferred Unlock
PruneReturn(c, valid) ==
    /\ clients[c].op = "Prune" /\ clients[c].pc = "locked"
    /\ cache' = [cache EXCEPT !.entries = Prune(@, valid), !.mu = RWFree]
    /\ clients' = [clients EXCEPT ![c].pc = "done"]
    /\ UNCHANGED cpath

\* Save: os.Create truncates the file
SaveCreate(c) ==
    /\ clients[c].op = "Save" /\ clients[c].pc = "rlocked"
    /\ cpath' = [kind |-> "corrupt", entries |-> EmptyMap]
    /\ clients' = [clients EXCEPT ![c].pc = "encode"]
    /\ UNCHANGED cache

\* Save: Encode walks the map, one entry at a time
SaveEncode(c, p) ==
    /\ clients[c].op = "Save" /\ clients[c].pc = "encode"
    /\ p \in DOMAIN cache.entries \ DOMAIN clients[c].buf
    /\ clients' = [clients EXCEPT ![c].buf =
                      [q \in DOMAIN @ \cup {p} |->
                          IF q = p THEN cache.entries[p] ELSE @[q]]]
    /\ UNCHANGED << cache, cpath >>

\* Save: Encode writes the message; the deferred Close and RUnlock
SaveReturn(c) ==
    /\ clients[c].op = "Save" /\ clients[c].pc = "encode"
    /\ DOMAIN cache.entries \subseteq DOMAIN clients[c].buf
    /\ cpath' = [kind |-> "ok", entries |-> clients[c].buf]
    /\ cache' = [cache EXCEPT !.mu.r = @ - 1]
    /\ clients' = [clients EXCEPT ![c].pc = "done"]

NextLock ==
    \E c \in Callers :
        \/ CallRLock(c) /\ UNCHANGED nonLockVars
        \/ \E p \in {PathA1, PathB2} : GetReturn(c, p) /\ UNCHANGED nonLockVars
        \/ CallLock(c) /\ UNCHANGED nonLockVars
        \/ CallLocked(c) /\ UNCHANGED nonLockVars
        \/ \E p \in {PathA1, PathB2} : SetReturn(c, p) /\ UNCHANGED nonLockVars
        \/ \E valid \in {{PathA1}, {PathA1, PathB1, PathB2}} :
              PruneReturn(c, valid) /\ UNCHANGED nonLockVars
        \/ SaveCreate(c) /\ UNCHANGED nonLockVars
        \/ \E p \in Paths : SaveEncode(c, p) /\ UNCHANGED nonLockVars
        \/ SaveReturn(c) /\ UNCHANGED nonLockVars

SpecLock == InitLock /\ [][NextLock]_vars

\* ------------------------------------------------------ claims: Save's lock
SaveInProgress(c) == clients[c].op = "Save" /\ clients[c].pc \in {"rlocked", "encode"}
SaveDone(c) == clients[c].op = "Save" /\ clients[c].pc = "done"
GetCalled(c) == clients[c].op = "Get" /\ clients[c].pc = "start"
WriterWaits(c) == clients[c].op \in {"Set", "Prune"} /\ clients[c].pc = "waiting"
\* While a Save is in progress the map is what it was when Save took the
\* lock and no Set or Prune is inside; the map a finished Save wrote is the
\* map of that instant.
SaveSeesSnapshot ==
    \A c \in Callers :
        /\ SaveInProgress(c) =>
              /\ cache.entries = clients[c].snap
              /\ \A d \in Callers : clients[d].pc # "locked"
        /\ SaveDone(c) => clients[c].buf = clients[c].snap

\* C33 as stated: Save holds the read lock for the whole serialization; while
\* it is in progress no Set or Prune changes the map, Gets are not blocked,
\* and the saved file is a snapshot of the map at one instant.
C33_Original ==
    /\ SaveSeesSnapshot
    /\ \A c, g \in Callers :
          (SaveInProgress(c) /\ GetCalled(g)) => RWCanRLock(cache.mu)

\* C33 amended: as above, except that a Get called while a Save is in
\* progress waits exactly when a Set or Prune is waiting for the Save to end.
C33_SaveHoldsReadLock ==
    /\ SaveSeesSnapshot
    /\ \A c, g \in Callers :
          (SaveInProgress(c) /\ GetCalled(g)) =>
              (RWCanRLock(cache.mu) <=> ~\E d \in Callers : WriterWaits(d))

\* C33 witness: a Save has encoded part of the map while a Set waits for the
\* lock and a Get, called after the Set, waits behind it.
C33_Witness ==
    \E c, d, g \in Callers :
        /\ SaveInProgress(c) /\ DOMAIN clients[c].buf = {PathA1}
        /\ WriterWaits(d) /\ clients[d].op = "Set"
        /\ GetCalled(g) /\ ~RWCanRLock(cache.mu)

\* ------------------------------------------------- claims: entry consistency
\* C37: every entry a scan writes into the cache is self-consistent: the
\* mtime it is keyed by is the ModTime of the record it holds.
C37_EntrySelfConsistent ==
    \A p \in DOMAIN setLog : setLog[p].ModTime = setLog[p].Session.ModTime

\* -------------------------------------------- claims: the injected commands
\* The processes the invocations started in the panes of the server.
PaneProcs ==
    UNION {{srv[h].wins[k].proc : k \in 1..Len(srv[h].wins)} : h \in 1..Len(srv)}
IsLaunch(p) == p.by \in Invs /\ p.cmd = LaunchCmd(inv[p.by].kind)

\* C36: on every path that injects the launch command into the claude
\* window (Repurpose, Create, existing session) the injected command is
\* wrapped, so that a shell keeps the pane alive when the program exits.
C36_LaunchWrapped == \A p \in PaneProcs : IsLaunch(p) => p.keep

\* The window commands invocation i has issued, in order.
WindowCmds(i) ==
    LET IsWin(e) == e.cmd \in {"new-window", "respawn-window"}
        log == SelectSeq(inv[i].cmds, IsWin)
    IN [n \in 1..Len(log) |-> log[n].cmd]
\* What the loop over the configured windows issues from window k on: for
\* each window its creation, followed by one pane restart when it has a
\* startup command.
RECURSIVE ExpectedCmds(_, _)
ExpectedCmds(cfg, k) ==
    IF k > Len(cfg) THEN << >>
    ELSE << "new-window" >>
         \o (IF cfg[k].Command # "" THEN << "respawn-window" >> ELSE << >>)
         \o ExpectedCmds(cfg, k + 1)
IsPrefix(a, b) == Len(a) <= Len(b) /\ a = SubSeq(b, 1, Len(a))
RestartsInOrder ==
    \A i \in Invs : IsPrefix(WindowCmds(i), ExpectedCmds(scen.cfg, 1))
\* Create has passed window k of the configuration.
PassedWindow(i, k) ==
    /\ inv[i].path = "create"
    /\ \/ inv[i].pc \in {"cr_add", "cr_cmd"} /\ inv[i].k > k
       \/ inv[i].pc \in {"cr_select", "switch", "respawn", "ok"}
\* The pane of configured window k of the session invocation i created.
CreatedPane(i, k) == srv[inv[i].sess].wins[k + 1].proc
\* While every command the multiplexer can carry out is carried out, the
\* window Create has passed runs its startup command, were it given one, and
\* the shell it was created with otherwise.
RestartsLand ==
    \A i \in Invs : \A k \in 1..Len(scen.cfg) :
        (faults = 0 /\ PassedWindow(i, k)) =>
            CreatedPane(i, k) = IF scen.cfg[k].Command # ""
                                THEN MkProc(scen.cfg[k].Command, TRUE, i)
                                ELSE ShellProc
NoKeystrokes ==
    \A i \in Invs : \A n \in 1..Len(inv[i].cmds) : inv[i].cmds[n].cmd # "send-keys"

\* C34: for each configured window with a startup command exactly one pane
\* restart is issued for that window, after the window was created and
\* before the next one is created, with the command wrapped so that a shell
\* follows it; for a window without a command none is issued; the command is
\* never sent as typed keystrokes.
C34_WindowCommands == RestartsInOrder /\ RestartsLand /\ NoKeystrokes

\* The last command invocation i issued was the injection of the launch
\* command, and the multiplexer refused it.
LaunchRefused(i) ==
    /\ inv[i].pc = "fatal" /\ inv[i].cmds # << >>
    /\ inv[i].cmds[Len(inv[i].cmds)] = [cmd |-> "respawn-launch", ok |-> FALSE]
\* The launch command of invocation i runs in window k of session h.
LaunchAt(i, h, k) ==
    srv[h].wins[k].proc.by = i /\ srv[h].wins[k].proc.cmd = LaunchCmd(inv[i].kind)

\* C35: the launch command is injected into the first window of the target
\* session whatever the configured window names are: while every command
\* the multiplexer can carry out is carried out the injection is not refused,
\* and the launch command runs in no window but the first.
C35_LaunchInFirstWindow ==
    \A i \in Invs :
        faults = 0 =>
            /\ ~LaunchRefused(i)
            /\ \A h \in 1..Len(srv) : \A k \in 1..Len(srv[h].wins) :
                  LaunchAt(i, h, k) => k = 1

====
